---- MODULE Spec2Model ----
(***************************************************************************)
(* A model of the AI Studio Bridge extension (src/unnamed/part_004, lines  *)
(* 1-592): the response-ingestion engine (handleAIResponse), the patch     *)
(* engine (applySearchReplace, patchEnvelopeToDiffForFile) and the round   *)
(* state kept in the module-level variables.                               *)
(*                                                                         *)
(* Text is modelled as a sequence of tokens.  A token is either a single   *)
(* character the code looks at (quote, backslash, brackets, colon, comma,  *)
(* white space, '/') or an atom standing for a run of characters that no   *)
(* operation of the code splits (a word such as status, a marker such as   *)
(* the triple backtick or the SEARCH marker).                                 *)
(***************************************************************************)
EXTENDS Integers, Sequences, FiniteSets, TLC

VARIABLES
    currentStagingRoot,   \* part_004:8   0 for "", else the number of the task's staging directory
    currentRoundDir,      \* part_004:9   <<>> for "", else <<staging root, round index>>
    currentWorkspaceRoot, \* part_004:10  "" or the workspace folder
    currentUserGoal,      \* part_004:11  "" or the goal entered
    currentRound,         \* part_004:12
    lastSystemPrompt,     \* part_004:13  <<>> for "", else the prompt text
    currentPanel,         \* part_004:14  0 for undefined, else the panel's number
    panels,               \* the webview panels that are open: number -> closure and html
    workspace,            \* the editor's world: open folders, files and directories on
                          \* disk, open documents (path -> buffer text)
    staging,              \* the round directories: <<root, round>> -> (file name -> content)
    stage,                \* the stageWorkspace invocation in progress
    call,                 \* the handleAIResponse invocations, in the order they began
    notices,              \* what the last step showed with vscode.window.show*Message
    probe                 \* input and output of the pure function under check

vars == <<currentStagingRoot, currentRoundDir, currentWorkspaceRoot, currentUserGoal,
          currentRound, lastSystemPrompt, currentPanel, panels, workspace, staging, stage,
          call, notices, probe>>

-----------------------------------------------------------------------------
(* Characters and strings *)

Q == "\""
BS == "\\"
NL == "\n"
CR == "\r"
SP == " "
\* The fence marker: three backtick characters in a row.
FENCE == "<3 backticks>"
SEARCH == "<<<<<<< SEARCH"
SEP == "======="
REPLACE == ">>>>>>> REPLACE"

\* White space as String.prototype.trim and the regular expression class for space see it.
WS == {SP, NL, CR, "\t"}

Min(a, b) == IF a < b THEN a ELSE b
Max(a, b) == IF a > b THEN a ELSE b

\* s.slice(from, to) with 0-based from (inclusive) and to (exclusive).
slice(s, from, to) == SubSeq(s, from + 1, Min(to, Len(s)))

\* s.indexOf(needle, from): 0-based index of the first occurrence of the token
\* sequence needle at or after from, or -1.
indexOfFrom(s, needle, from) ==
    LET hits == {i \in from..(Len(s) - Len(needle)) :
                     \A k \in 1..Len(needle) : s[i + k] = needle[k]}
    IN IF hits = {} THEN -1 ELSE CHOOSE i \in hits : \A j \in hits : i <= j

indexOf(s, needle) == indexOfFrom(s, needle, 0)

lastIndexOf(s, needle) ==
    LET hits == {i \in 0..(Len(s) - Len(needle)) :
                     \A k \in 1..Len(needle) : s[i + k] = needle[k]}
    IN IF hits = {} THEN -1 ELSE CHOOSE i \in hits : \A j \in hits : i >= j

startsWith(s, prefix) ==
    /\ Len(s) >= Len(prefix)
    /\ \A k \in 1..Len(prefix) : s[k] = prefix[k]

\* Number of leading / trailing white-space tokens.
LeadWs(s) ==
    LET nonws == {i \in 1..Len(s) : s[i] \notin WS}
    IN IF nonws = {} THEN Len(s) ELSE (CHOOSE i \in nonws : \A j \in nonws : i <= j) - 1

TrailWs(s) ==
    LET nonws == {i \in 1..Len(s) : s[i] \notin WS}
    IN IF nonws = {} THEN Len(s) ELSE Len(s) - (CHOOSE i \in nonws : \A j \in nonws : i >= j)

trimStart(s) == SubSeq(s, LeadWs(s) + 1, Len(s))
trimEnd(s) == SubSeq(s, 1, Len(s) - TrailWs(s))
trim(s) == trimEnd(trimStart(s))

RECURSIVE Concat(_)
Concat(ss) == IF ss = <<>> THEN <<>> ELSE Head(ss) \o Concat(Tail(ss))

\* lines.join(sep)
RECURSIVE join(_, _)
join(ss, sep) ==
    IF ss = <<>> THEN <<>>
    ELSE IF Len(ss) = 1 THEN ss[1]
    ELSE ss[1] \o sep \o join(Tail(ss), sep)

Range(f) == {f[x] : x \in DOMAIN f}

-----------------------------------------------------------------------------
(* JSON values.  Every value has the same record shape: t is the kind, s the *)
(* characters of a string, number or member key, kids the elements of an     *)
(* array, the members of an object or the value of a member.                 *)

JV(t, s, kids) == [t |-> t, s |-> s, kids |-> kids]
Undefined == JV("undefined", <<>>, <<>>)
JNull == JV("null", <<>>, <<>>)
JBool(b) == JV(b, <<>>, <<>>)
JNum(digits) == JV("num", digits, <<>>)
JStr(chars) == JV("str", chars, <<>>)
JArr(elems) == JV("arr", <<>>, elems)
JMem(key, v) == JV("mem", key, <<v>>)
JObj(members) == JV("obj", <<>>, members)

Digits == {"0", "1", "2", "3", "4", "5", "6", "7", "8", "9"}
Literals == {"null", "true", "false"}
\* What may follow a backslash inside a JSON string, and the character it denotes.
Unescape == (Q :> Q) @@ (BS :> BS) @@ ("/" :> "/") @@ ("n" :> NL) @@ ("r" :> CR) @@ ("t" :> "\t")
\* Characters a JSON string may not hold unescaped.
ControlChars == {NL, CR, "\t"}

\* obj[key] = v on an object under construction: a repeated key keeps its place
\* and takes the later value.
SetMember(members, key, v) ==
    IF \E i \in 1..Len(members) : members[i].s = key
    THEN [i \in 1..Len(members) |->
             IF members[i].s = key THEN JMem(key, v) ELSE members[i]]
    ELSE Append(members, JMem(key, v))

ParseFail == [ok |-> FALSE, val |-> JNull, next |-> 0]
ParseOk(v, n) == [ok |-> TRUE, val |-> v, next |-> n]

RECURSIVE SkipWs(_, _)
SkipWs(t, i) == IF i <= Len(t) /\ t[i] \in WS THEN SkipWs(t, i + 1) ELSE i

RECURSIVE ScanString(_, _, _)
ScanString(t, j, acc) ==
    IF j > Len(t) THEN ParseFail
    ELSE IF t[j] = Q THEN ParseOk(JStr(acc), j + 1)
    ELSE IF t[j] = BS
         THEN IF j + 1 <= Len(t) /\ t[j + 1] \in DOMAIN Unescape
              THEN ScanString(t, j + 2, Append(acc, Unescape[t[j + 1]]))
              ELSE ParseFail
    ELSE IF t[j] \in ControlChars THEN ParseFail
    ELSE ScanString(t, j + 1, Append(acc, t[j]))

RECURSIVE ScanDigits(_, _, _)
ScanDigits(t, j, acc) ==
    IF j <= Len(t) /\ t[j] \in Digits
    THEN ScanDigits(t, j + 1, Append(acc, t[j]))
    ELSE ParseOk(JNum(acc), j)

RECURSIVE ParseValue(_, _)
RECURSIVE ParseElems(_, _, _)
RECURSIVE ParseMembers(_, _, _)

\* One JSON value starting at or after position i (1-based).
ParseValue(t, i) ==
    LET j == SkipWs(t, i)
    IN IF j > Len(t) THEN ParseFail
       ELSE IF t[j] = Q THEN ScanString(t, j + 1, <<>>)
       ELSE IF t[j] \in Literals
            THEN ParseOk(IF t[j] = "null" THEN JNull ELSE JBool(t[j]), j + 1)
       ELSE IF t[j] \in Digits THEN ScanDigits(t, j, <<>>)
       ELSE IF t[j] = "["
            THEN LET k == SkipWs(t, j + 1)
                 IN IF k <= Len(t) /\ t[k] = "]"
                    THEN ParseOk(JArr(<<>>), k + 1)
                    ELSE ParseElems(t, k, <<>>)
       ELSE IF t[j] = "{"
            THEN LET k == SkipWs(t, j + 1)
                 IN IF k <= Len(t) /\ t[k] = "}"
                    THEN ParseOk(JObj(<<>>), k + 1)
                    ELSE ParseMembers(t, k, <<>>)
       ELSE ParseFail

\* The elements of an array whose next element starts at i.
ParseElems(t, i, acc) ==
    LET r == ParseValue(t, i)
    IN IF ~r.ok THEN ParseFail
       ELSE LET j == SkipWs(t, r.next)
            IN IF j > Len(t) THEN ParseFail
               ELSE IF t[j] = "," THEN ParseElems(t, j + 1, Append(acc, r.val))
               ELSE IF t[j] = "]" THEN ParseOk(JArr(Append(acc, r.val)), j + 1)
               ELSE ParseFail

\* The members of an object whose next key starts at i.
ParseMembers(t, i, acc) ==
    LET k == SkipWs(t, i)
    IN IF k > Len(t) \/ t[k] # Q THEN ParseFail
       ELSE LET key == ScanString(t, k + 1, <<>>)
            IN IF ~key.ok THEN ParseFail
               ELSE LET c == SkipWs(t, key.next)
                    IN IF c > Len(t) \/ t[c] # ":" THEN ParseFail
                       ELSE LET r == ParseValue(t, c + 1)
                            IN IF ~r.ok THEN ParseFail
                               ELSE LET j == SkipWs(t, r.next)
                                        ms == SetMember(acc, key.val.s, r.val)
                                    IN IF j > Len(t) THEN ParseFail
                                       ELSE IF t[j] = "," THEN ParseMembers(t, j + 1, ms)
                                       ELSE IF t[j] = "}" THEN ParseOk(JObj(ms), j + 1)
                                       ELSE ParseFail

\* JSON.parse(t): ok is FALSE where JSON.parse throws a SyntaxError.
JSONparse(t) ==
    LET r == ParseValue(t, 1)
    IN IF r.ok /\ SkipWs(t, r.next) > Len(t) THEN r ELSE ParseFail

\* The characters of a JSON string literal for chars (as JSON.stringify writes it).
RECURSIVE EscapeChars(_)
EscapeChars(chars) ==
    IF chars = <<>> THEN <<>>
    ELSE LET c == Head(chars)
             e == IF c = Q THEN <<BS, Q>>
                  ELSE IF c = BS THEN <<BS, BS>>
                  ELSE IF c = NL THEN <<BS, "n">>
                  ELSE IF c = CR THEN <<BS, "r">>
                  ELSE IF c = "\t" THEN <<BS, "t">>
                  ELSE <<c>>
         IN e \o EscapeChars(Tail(chars))

\* JSON.stringify(v): the compact JSON text of a value.
RECURSIVE stringify(_)
stringify(v) ==
    IF v.t = "str" THEN <<Q>> \o EscapeChars(v.s) \o <<Q>>
    ELSE IF v.t = "num" THEN v.s
    ELSE IF v.t = "arr"
         THEN <<"[">> \o join([i \in 1..Len(v.kids) |-> stringify(v.kids[i])], <<",">>) \o <<"]">>
    ELSE IF v.t = "obj"
         THEN <<"{">>
              \o join([i \in 1..Len(v.kids) |->
                          <<Q>> \o EscapeChars(v.kids[i].s) \o <<Q, ":">>
                          \o stringify(v.kids[i].kids[1])], <<",">>)
              \o <<"}">>
    ELSE <<v.t>>

\* value[key] as JavaScript evaluates it on a value that is neither null nor
\* undefined: the member's value on an object, undefined on anything else
\* (none of the keys the code reads is a property of an array, string or number).
Get(v, key) ==
    IF v.t = "obj" /\ \E i \in 1..Len(v.kids) : v.kids[i].s = <<key>>
    THEN v.kids[CHOOSE i \in 1..Len(v.kids) : v.kids[i].s = <<key>>].kids[1]
    ELSE Undefined

\* JavaScript truthiness.
Truthy(v) ==
    /\ v.t \notin {"undefined", "null", "false"}
    /\ ~(v.t = "str" /\ v.s = <<>>)
    /\ ~(v.t = "num" /\ \A i \in 1..Len(v.s) : v.s[i] = "0")

isArray(v) == v.t = "arr"
\* v === 'word' for a one-atom string.
IsStr(v, word) == v.t = "str" /\ v.s = <<word>>

-----------------------------------------------------------------------------
(* handleAIResponse, first half: from the raw text to the value acted upon *)

\* The match of the regular expression of normalizeJsonLikeResponse that starts
\* at position i (1-based): "content" \s* : \s* "( SEARCH-marker ... REPLACE-marker )"
\* with the shortest possible group.  ok is FALSE when there is none.
ContentMatch(t, i) ==
    IF ~(i + 2 <= Len(t) /\ t[i] = Q /\ t[i + 1] = "content" /\ t[i + 2] = Q)
    THEN [ok |-> FALSE, from |-> 0, to |-> 0]
    ELSE LET c == SkipWs(t, i + 3)
         IN IF ~(c <= Len(t) /\ t[c] = ":")
            THEN [ok |-> FALSE, from |-> 0, to |-> 0]
            ELSE LET k == SkipWs(t, c + 1)
                     ends == {e \in (k + 2)..(Len(t) - 1) : t[e] = REPLACE /\ t[e + 1] = Q}
                 IN IF k + 1 <= Len(t) /\ t[k] = Q /\ t[k + 1] = SEARCH /\ ends # {}
                    THEN [ok |-> TRUE, from |-> k + 1,
                          to |-> CHOOSE e \in ends : \A f \in ends : e <= f]
                    ELSE [ok |-> FALSE, from |-> 0, to |-> 0]

\* g1.replace(/\\/g, "\\\\").replace(/"/g, '\\"')
RECURSIVE EscapeGroup(_)
EscapeGroup(g) ==
    IF g = <<>> THEN <<>>
    ELSE (IF Head(g) = BS THEN <<BS, BS>>
          ELSE IF Head(g) = Q THEN <<BS, Q>>
          ELSE <<Head(g)>>) \o EscapeGroup(Tail(g))

RECURSIVE NormalizeFrom(_, _)
NormalizeFrom(t, i) ==
    IF i > Len(t) THEN <<>>
    ELSE LET m == ContentMatch(t, i)
         IN IF m.ok
            THEN <<Q, "content", Q, ":", Q>> \o EscapeGroup(SubSeq(t, m.from, m.to)) \o <<Q>>
                 \o NormalizeFrom(t, m.to + 2)
            ELSE <<t[i]>> \o NormalizeFrom(t, i + 1)

normalizeJsonLikeResponse(t) == NormalizeFrom(t, 1)

\* inner.replace(/^json\s*/, '')
StripJsonTag(s) ==
    IF s # <<>> /\ s[1] = "json" THEN trimStart(Tail(s)) ELSE s

\* t.replace(/^FENCE(json)?\s*/, '')
StripLeadingFence(s) ==
    IF s # <<>> /\ s[1] = FENCE
    THEN LET r == Tail(s)
         IN trimStart(IF r # <<>> /\ r[1] = "json" THEN Tail(r) ELSE r)
    ELSE s

\* s.replace(/\s*FENCE$/, '')
StripTrailingFence(s) ==
    IF s # <<>> /\ s[Len(s)] = FENCE THEN trimEnd(SubSeq(s, 1, Len(s) - 1)) ELSE s

\* The candidate from the code fence (part_004:206-217): none when t has no fence.
FenceCandidate(t) ==
    LET fenceStart == indexOf(t, <<FENCE>>)
    IN IF fenceStart = -1 THEN <<>>
       ELSE LET fenceEnd == indexOfFrom(t, <<FENCE>>, fenceStart + 1)
            IN IF fenceEnd # -1
               THEN <<trim(StripJsonTag(trim(slice(t, fenceStart + 1, fenceEnd))))>>
               ELSE <<trim(StripTrailingFence(StripLeadingFence(t)))>>

\* The candidate from the first [ to the last ] (part_004:221-225).
BracketCandidate(t) ==
    LET bStart == indexOf(t, <<"[">>)
        bEnd == lastIndexOf(t, <<"]">>)
    IN IF bStart # -1 /\ bEnd # -1 /\ bEnd > bStart
       THEN <<slice(t, bStart, bEnd + 1)>> ELSE <<>>

\* The candidate from the first { to the last } (part_004:226-230).
BraceCandidate(t) ==
    LET oStart == indexOf(t, <<"{">>)
        oEnd == lastIndexOf(t, <<"}">>)
    IN IF oStart # -1 /\ oEnd # -1 /\ oEnd > oStart
       THEN <<slice(t, oStart, oEnd + 1)>> ELSE <<>>

\* candidates with the whole text pushed before the fenced one.
Candidates_WholeFirst(t) == <<t>> \o FenceCandidate(t) \o BracketCandidate(t) \o BraceCandidate(t)

\* candidates, in the order the code pushes them.
Candidates(t) == FenceCandidate(t) \o <<t>> \o BracketCandidate(t) \o BraceCandidate(t)

\* The loop over the candidates (part_004:232-241): the first non-empty one that
\* JSON.parse accepts.
RECURSIVE FirstParsed(_)
FirstParsed(cs) ==
    IF cs = <<>> THEN ParseFail
    ELSE IF Head(cs) = <<>> THEN FirstParsed(Tail(cs))
    ELSE LET r == JSONparse(Head(cs))
         IN IF r.ok THEN r ELSE FirstParsed(Tail(cs))

JCompleted == JStr(<<"COMPLETED">>)

\* Coerce without the rule for objects that carry code_changes but no status.
Coerce_ArraysOnly(parsed) ==
    IF isArray(parsed)
    THEN JObj(<<JMem(<<"status">>, JCompleted), JMem(<<"code_changes">>, parsed)>>)
    ELSE parsed

\* part_004:248-254: the value the rest of the handler acts upon.
Coerce(parsed) ==
    IF isArray(parsed)
    THEN JObj(<<JMem(<<"status">>, JCompleted), JMem(<<"code_changes">>, parsed)>>)
    ELSE IF Truthy(parsed) /\ ~Truthy(Get(parsed, "status"))
            /\ isArray(Get(parsed, "code_changes"))
         THEN JObj(SetMember(parsed.kids, <<"status">>, JCompleted))
    ELSE parsed

\* part_004:200-258: ok is FALSE when the catch block is taken (action ERROR).
ParseResponse(jsonText) ==
    LET t == normalizeJsonLikeResponse(trim(jsonText))
        r == FirstParsed(Candidates(t))
    IN IF r.ok THEN [ok |-> TRUE, parsed |-> r.val, data |-> Coerce(r.val)]
       ELSE [ok |-> FALSE, parsed |-> JNull, data |-> JNull]

\* A dispatch that looks at the payload before the status.
Dispatch_ChangesFirst(data) ==
    IF data.t = "null" THEN "THROW"
    ELSE IF Get(data, "code_changes").t = "arr" THEN "COMPLETED"
    ELSE IF IsStr(Get(data, "status"), "COMPLETED") THEN "COMPLETED"
    ELSE IF IsStr(Get(data, "status"), "NEED_CONTEXT") THEN "NEED_CONTEXT"
    ELSE "UNKNOWN"

\* Which branch of part_004:260-386 a value takes.  Reading data.status throws a
\* TypeError when data is null (JSON.parse never yields undefined).
Dispatch(data) ==
    IF data.t = "null" THEN "THROW"
    ELSE IF IsStr(Get(data, "status"), "COMPLETED") THEN "COMPLETED"
    ELSE IF IsStr(Get(data, "status"), "NEED_CONTEXT") THEN "NEED_CONTEXT"
    ELSE "UNKNOWN"

-----------------------------------------------------------------------------
(* The patch engine: applySearchReplace and patchEnvelopeToDiffForFile *)

UPDATE == "*** Update File:"
BEGINPATCH == "*** Begin Patch"
ENDPATCH == "*** End Patch"
HUNK == "@@"

\* Length of what \r?\n matches at position i (1-based) of s; 0 when it does not match.
EolLen(s, i) ==
    IF i + 1 <= Len(s) /\ s[i] = CR /\ s[i + 1] = NL THEN 2
    ELSE IF i <= Len(s) /\ s[i] = NL THEN 1
    ELSE 0

\* Where group 2 of blockRegex can end when it starts at g: before an end of line
\* that the REPLACE marker follows.
ReplaceEnds(diff, g) ==
    {e \in g..Len(diff) :
        /\ EolLen(diff, e) > 0
        /\ e + EolLen(diff, e) <= Len(diff)
        /\ diff[e + EolLen(diff, e)] = REPLACE}

\* Position after "eol ======= eol" when that is what stands at e, else 0.
AfterSeparator(diff, e) ==
    LET l1 == EolLen(diff, e)
    IN IF l1 > 0 /\ e + l1 <= Len(diff) /\ diff[e + l1] = SEP
          /\ EolLen(diff, e + l1 + 1) > 0
       THEN e + l1 + 1 + EolLen(diff, e + l1 + 1)
       ELSE 0

\* Where group 1 of blockRegex can end when it starts at g (the rest of the
\* expression must match too).
SearchEnds(diff, g) ==
    {e \in g..Len(diff) :
        /\ AfterSeparator(diff, e) > 0
        /\ ReplaceEnds(diff, AfterSeparator(diff, e)) # {}}

MinOf(S) == CHOOSE x \in S : \A y \in S : x <= y

NoBlock == [ok |-> FALSE, search |-> <<>>, replace |-> <<>>, next |-> 0]

\* The match of blockRegex that starts at position p: both groups are lazy, so
\* each ends at the first place that lets the rest match.
BlockAt(diff, p) ==
    IF ~(p <= Len(diff) /\ diff[p] = SEARCH /\ EolLen(diff, p + 1) > 0) THEN NoBlock
    ELSE LET g1 == p + 1 + EolLen(diff, p + 1)
         IN IF SearchEnds(diff, g1) = {} THEN NoBlock
            ELSE LET e1 == MinOf(SearchEnds(diff, g1))
                     g2 == AfterSeparator(diff, e1)
                     e2 == MinOf(ReplaceEnds(diff, g2))
                 IN [ok |-> TRUE,
                     search |-> SubSeq(diff, g1, e1 - 1),
                     replace |-> SubSeq(diff, g2, e2 - 1),
                     next |-> e2 + EolLen(diff, e2) + 1]

\* blockRegex.exec(diff) with lastIndex = from - 1: the leftmost match at or after from.
FirstBlock(diff, starts) == IF starts = {} THEN NoBlock ELSE BlockAt(diff, MinOf(starts))
ExecBlock(diff, from) == FirstBlock(diff, {p \in from..Len(diff) : BlockAt(diff, p).ok})

\* A normalization that leaves every line ending as it is.
normalize_KeepsLineEndings(s) == s

\* s.replace(/\r\n/g, '\n')
RECURSIVE normalize(_)
normalize(s) ==
    IF s = <<>> THEN <<>>
    ELSE IF Len(s) >= 2 /\ s[1] = CR /\ s[2] = NL THEN <<NL>> \o normalize(Tail(Tail(s)))
    ELSE <<Head(s)>> \o normalize(Tail(s))

\* The splice of part_004:501 with the replacement normalized as well.
ApplyBlock_NormalizedReplace(result, search, replace) ==
    LET normalizedResult == normalize(result)
        normalizedSearch == normalize(search)
        index == indexOf(normalizedResult, normalizedSearch)
    IN IF index # -1
       THEN [found |-> TRUE,
             result |-> slice(normalizedResult, 0, index) \o normalize(replace)
                        \o SubSeq(normalizedResult, index + Len(normalizedSearch) + 1,
                                  Len(normalizedResult))]
       ELSE [found |-> FALSE, result |-> result]

\* The splice of part_004:501 taking the last occurrence instead of the first.
ApplyBlock_LastOccurrence(result, search, replace) ==
    LET normalizedResult == normalize(result)
        normalizedSearch == normalize(search)
        index == lastIndexOf(normalizedResult, normalizedSearch)
    IN IF index # -1
       THEN [found |-> TRUE,
             result |-> slice(normalizedResult, 0, index) \o replace
                        \o SubSeq(normalizedResult, index + Len(normalizedSearch) + 1,
                                  Len(normalizedResult))]
       ELSE [found |-> FALSE, result |-> result]

\* The body of the while loop (part_004:489-504) for one block: found is FALSE
\* when the warning is shown.
SpliceAt(result, normalizedResult, normalizedSearch, index, replace) ==
    IF index # -1
    THEN [found |-> TRUE,
          result |-> slice(normalizedResult, 0, index) \o replace
                     \o SubSeq(normalizedResult, index + Len(normalizedSearch) + 1,
                               Len(normalizedResult))]
    ELSE [found |-> FALSE, result |-> result]
FindNormalized(result, normalizedResult, normalizedSearch, replace) ==
    SpliceAt(result, normalizedResult, normalizedSearch,
             indexOf(normalizedResult, normalizedSearch), replace)
ApplyBlock(result, search, replace) ==
    FindNormalized(result, normalize(result), normalize(search), replace)

\* The while loop of applySearchReplace from position from on, stopping at the
\* first block that is not found.
RECURSIVE RunBlocks_StopAtMiss(_, _, _, _)
RunBlocks_StopAtMiss(result, diff, from, warned) ==
    LET b == ExecBlock(diff, from)
    IN IF ~b.ok THEN [result |-> result, warned |-> warned]
       ELSE LET r == ApplyBlock(result, b.search, b.replace)
            IN IF r.found THEN RunBlocks_StopAtMiss(r.result, diff, b.next, warned)
               ELSE [result |-> result, warned |-> warned + 1]

\* The while loop of applySearchReplace from position from on; warned counts the
\* warnings shown.
RECURSIVE RunBlocks(_, _, _, _)
\* After the body ran for a block: r is what it made of result.
AfterBlock(r, diff, next, warned) ==
    RunBlocks(r.result, diff, next, IF r.found THEN warned ELSE warned + 1)
\* One turn of a loop that applies the blocks after b before b itself.
LoopTurn_LaterBlocksFirst(result, diff, b, warned) ==
    IF ~b.ok THEN [result |-> result, warned |-> warned]
    ELSE LET rest == RunBlocks(result, diff, b.next, warned)
             r == ApplyBlock(rest.result, b.search, b.replace)
         IN [result |-> r.result, warned |-> IF r.found THEN rest.warned ELSE rest.warned + 1]
\* One turn of the loop: b is what blockRegex.exec returned.
LoopTurn(result, diff, b, warned) ==
    IF ~b.ok THEN [result |-> result, warned |-> warned]
    ELSE AfterBlock(ApplyBlock(result, b.search, b.replace), diff, b.next, warned)
RunBlocks(result, diff, from, warned) == LoopTurn(result, diff, ExecBlock(diff, from), warned)

\* applySearchReplace(original, diff) with the number of warnings it shows.
SearchReplaceRun(original, diff) == RunBlocks(original, diff, 1, 0)

applySearchReplace(original, diff) == SearchReplaceRun(original, diff).result

\* patch.split(/\r?\n/)
RECURSIVE splitLines(_, _)
splitLines(s, cur) ==
    IF s = <<>> THEN <<cur>>
    ELSE IF EolLen(s, 1) > 0 THEN <<cur>> \o splitLines(SubSeq(s, EolLen(s, 1) + 1, Len(s)), <<>>)
    ELSE splitLines(Tail(s), Append(cur, Head(s)))

\* s.split(sep) for a one-token separator
RECURSIVE split(_, _, _)
split(s, sep, cur) ==
    IF s = <<>> THEN <<cur>>
    ELSE IF Head(s) = sep THEN <<cur>> \o split(Tail(s), sep, <<>>)
    ELSE split(Tail(s), sep, Append(cur, Head(s)))

IsHunkLine(l) == l # <<>> /\ l[1] \in {SP, "-", "+"}

\* The for loop of patchEnvelopeToDiffForFile (part_004:529-543) from line i on:
\* the hunks handed to pushBlock, each the lines collected for it.  pushBlock
\* skips an empty collection.
RECURSIVE CollectHunks(_, _, _, _, _)
CollectHunks(lines, i, targetFile, inUpdate, collects) ==
    LET flush == IF collects = <<>> THEN <<>> ELSE <<collects>>
    IN IF i > Len(lines) THEN flush
       ELSE LET l == lines[i]
            IN IF l # <<>> /\ l[1] = UPDATE
               THEN CollectHunks(lines, i + 1, targetFile, trim(Tail(l)) = targetFile, collects)
               ELSE IF ~inUpdate THEN CollectHunks(lines, i + 1, targetFile, inUpdate, collects)
               ELSE IF l # <<>> /\ l[1] = HUNK
                    THEN flush \o CollectHunks(lines, i + 1, targetFile, inUpdate, <<>>)
               ELSE IF l # <<>> /\ l[1] = ENDPATCH THEN flush
               ELSE CollectHunks(lines, i + 1, targetFile, inUpdate,
                                 IF IsHunkLine(l) THEN Append(collects, l) ELSE collects)

SelectLines(hLines, prefixes) ==
    LET F[i \in 0..Len(hLines)] ==
            IF i = 0 THEN <<>>
            ELSE IF hLines[i][1] \in prefixes THEN Append(F[i - 1], Tail(hLines[i]))
            ELSE F[i - 1]
    IN F[Len(hLines)]

\* The search and replace lines pushBlock builds from a hunk (part_004:518-524).
HunkSearch(hLines) == SelectLines(hLines, {SP, "-"})
HunkReplace(hLines) == SelectLines(hLines, {SP, "+"})

\* The block text pushBlock appends (part_004:525).  hunk.split('\n') gives the
\* collected lines back: no collected line holds a line feed.
BlockText(hLines) ==
    <<SEARCH, NL>> \o join(HunkSearch(hLines), <<NL>>) \o <<NL, SEP, NL>>
    \o join(HunkReplace(hLines), <<NL>>) \o <<NL, REPLACE>>

PatchHunks(patch, targetFile) == CollectHunks(splitLines(patch, <<>>), 1, targetFile, FALSE, <<>>)

patchEnvelopeToDiffForFile(patch, targetFile) ==
    LET hunks == PatchHunks(patch, targetFile)
    IN join([i \in 1..Len(hunks) |-> BlockText(hunks[i])], <<NL>>)

\* The text applySearchReplace is given for a DIFF or a PATCH change
\* (part_004:289, 291-292).
DiffOf(change) ==
    IF IsStr(Get(change, "type"), "DIFF") THEN Get(change, "content").s
    ELSE patchEnvelopeToDiffForFile(Get(change, "content").s, Get(change, "file_path").s)

\* What a change leaves: the working content and the warnings shown.
Outcome(run) == [content |-> run.result, warned |-> run.warned]

\* One change with a FULL_REWRITE that appends to the working content.
ApplyChange_RewriteAppends(workingContent, change) ==
    IF IsStr(Get(change, "type"), "FULL_REWRITE")
    THEN [content |-> workingContent \o Get(change, "content").s, warned |-> 0]
    ELSE IF IsStr(Get(change, "type"), "DIFF") \/ IsStr(Get(change, "type"), "PATCH")
    THEN Outcome(SearchReplaceRun(workingContent, DiffOf(change)))
    ELSE [content |-> workingContent, warned |-> 0]

\* One pass of the loop over a file's changes (part_004:285-294); the changes
\* reaching it have a recognized type and, in this model, a string content.
ApplyChange(workingContent, change) ==
    IF IsStr(Get(change, "type"), "FULL_REWRITE")
    THEN [content |-> Get(change, "content").s, warned |-> 0]
    ELSE IF IsStr(Get(change, "type"), "DIFF") \/ IsStr(Get(change, "type"), "PATCH")
    THEN Outcome(SearchReplaceRun(workingContent, DiffOf(change)))
    ELSE [content |-> workingContent, warned |-> 0]

\* The loop over a file's changes (part_004:285-294), seeded with the content read.
RECURSIVE FoldChanges(_, _, _)
AfterChange(r, rest, warned) == FoldChanges(r.content, rest, warned + r.warned)
FoldChanges(workingContent, changes, warned) ==
    IF changes = <<>> THEN [content |-> workingContent, warned |-> warned]
    ELSE AfterChange(ApplyChange(workingContent, Head(changes)), Tail(changes), warned)

-----------------------------------------------------------------------------
(* Responses the model receives *)

\* Longest request_files array drawn for the parser's inputs.
MaxReqFiles == 1

Str(w) == JStr(<<w>>)

\* A code change as the system prompt describes it.
Change(path, type, content) ==
    JObj(<<JMem(<<"file_path">>, JStr(path)), JMem(<<"type">>, Str(type)),
           JMem(<<"content">>, JStr(content))>>)

\* Values of the status field drawn; <<>> stands for "the field is absent".
StatusChoices == {<<>>, <<Str("COMPLETED")>>, <<Str("NEED_CONTEXT")>>, <<Str("DONE")>>,
                  <<JStr(<<>>)>>, <<JNull>>}

\* Values of code_changes drawn: absent, a list of edits, a list holding null,
\* a value that is no array, an empty list.
CodeChangesChoices ==
    {<<>>,
     <<JArr(<<Change(<<"a.ts">>, "FULL_REWRITE", <<"x">>)>>)>>,
     <<JArr(<<Change(<<"a.md">>, "FULL_REWRITE", <<FENCE, "js", NL, "x", "[", "1", "]", NL, FENCE>>)>>)>>,
     <<JArr(<<JNull>>)>>,
     <<Str("none")>>,
     <<JArr(<<>>)>>}

\* Strings a request_files entry is drawn from: a plain path, one holding a
\* fence marker, one holding square brackets.
ReqFileStrings == {<<"a.ts">>, <<"a", FENCE, "b">>, <<"x", "[", "y", "]">>}

RECURSIVE SeqsUpTo(_, _)
SeqsUpTo(S, n) ==
    IF n = 0 THEN {<<>>}
    ELSE LET shorter == SeqsUpTo(S, n - 1)
         IN shorter \cup {Append(q, x) : q \in shorter, x \in S}

ReqFilesChoices ==
    {<<>>} \cup {<<JArr(q)>> : q \in SeqsUpTo({JStr(c) : c \in ReqFileStrings}, MaxReqFiles)}

Field(key, choice) == IF choice = <<>> THEN <<>> ELSE <<JMem(<<key>>, choice[1])>>

ObjectValues ==
    {JObj(Field("status", st) \o Field("request_files", rf) \o Field("code_changes", cc)) :
        st \in StatusChoices, rf \in ReqFilesChoices, cc \in CodeChangesChoices}

\* Top-level values that are no object.
OtherValues ==
    {JNull, JNum(<<"5">>), Str("hi"), JArr(<<>>),
     JArr(<<Change(<<"a.ts">>, "FULL_REWRITE", <<"x">>)>>),
     JArr(<<JStr(<<"a", FENCE, "b">>)>>), JStr(<<FENCE, "5", FENCE>>)}

ResponseValues == ObjectValues \cup OtherValues

\* How the JSON text reaches the handler.
Wraps == {"bare", "fence_json", "fence", "open_fence", "prose"}

Wrap(w, j) ==
    IF w = "fence_json" THEN <<FENCE, "json", NL>> \o j \o <<NL, FENCE>>
    ELSE IF w = "fence" THEN <<FENCE, NL>> \o j \o <<NL, FENCE>>
    ELSE IF w = "open_fence" THEN <<FENCE, "json", NL>> \o j
    ELSE IF w = "prose" THEN <<"Sure", SP>> \o j \o <<SP, "Done", NL>>
    ELSE j

\* Texts that are no JSON at all.
GarbageTexts ==
    {<<>>, <<SP, NL>>, <<"x">>, <<"{", "x">>, <<FENCE>>, <<FENCE, "json", NL, FENCE>>,
     <<"[", "x", "]">>, <<"{", Q, "status", Q, ":", "}">>, <<"]", "[">>}

Status(w) == JMem(<<"status">>, Str(w))
Changes(cs) == JMem(<<"code_changes">>, JArr(cs))

\* Search/replace literals a DIFF edit may carry: a plain one, and one that
\* holds quotes and a backslash.
DiffLiterals ==
    {<<SEARCH, NL, "old", NL, SEP, NL, "new", NL, REPLACE>>,
     <<SEARCH, NL, "a", Q, "b", Q, NL, SEP, NL, "c", BS, "d", NL, REPLACE>>}

\* A COMPLETED response with one DIFF edit of a.ts whose content is lit.
DiffResponse(lit) == JObj(<<Status("COMPLETED"), Changes(<<Change(<<"a.ts">>, "DIFF", lit)>>)>>)

\* The same response as a model writes it when it does not escape the literal:
\* the diff text stands between the quotes as it is, raw newlines included.
RawDiffText(lit) ==
    <<"{", Q, "status", Q, ":", Q, "COMPLETED", Q, ",", Q, "code_changes", Q, ":", "[",
      "{", Q, "file_path", Q, ":", Q, "a.ts", Q, ",", Q, "type", Q, ":", Q, "DIFF", Q, ",",
      Q, "content", Q, ":", Q>> \o lit \o <<Q, "}", "]", "}">>

-----------------------------------------------------------------------------
(* State of the program after the module is loaded (part_004:8-13). *)

\* The folder the editor has open, and what lies on disk: one project file, one
\* project directory, and one file outside the project.
WsFolder == "ws"
Seg(w) == <<w>>
WsPath(segs) == <<Seg(WsFolder)>> \o segs

DiskInit ==
    [folders |-> <<WsFolder>>,
     files |-> (WsPath(<<Seg("a.ts")>>) :> <<"old", NL, "x">>) @@ (<<Seg("secret.txt")>> :> <<"key">>),
     dirs |-> {<<>>, <<Seg(WsFolder)>>, WsPath(<<Seg("src")>>)},
     docs |-> <<>>]

NoStage == [pc |-> "idle", root |-> 0, folder |-> "", staged |-> <<>>]

GlobalsInit ==
    /\ currentStagingRoot = 0
    /\ currentRoundDir = <<>>
    /\ currentWorkspaceRoot = ""
    /\ currentUserGoal = ""
    /\ currentRound = 1
    /\ lastSystemPrompt = <<>>
    /\ currentPanel = 0
    /\ panels = <<>>
    /\ staging = <<>>
    /\ stage = NoStage
    /\ call = <<>>
    /\ notices = <<>>

ProgramInit == GlobalsInit /\ workspace = DiskInit

programVars == <<currentStagingRoot, currentRoundDir, currentWorkspaceRoot, currentUserGoal,
                 currentRound, lastSystemPrompt, currentPanel, panels, workspace, staging,
                 stage, call, notices>>

-----------------------------------------------------------------------------
(* SpecParse: the first half of handleAIResponse applied to one text *)

ParseInit ==
    /\ ProgramInit
    /\ \/ \E v \in ResponseValues, w \in Wraps :
              probe = [phase |-> "input", wrap |-> w, json |-> stringify(v),
                       text |-> Wrap(w, stringify(v)), out |-> ParseResponse(<<>>)]
       \/ \E g \in GarbageTexts :
              probe = [phase |-> "input", wrap |-> "raw", json |-> <<>>,
                       text |-> g, out |-> ParseResponse(<<>>)]
       \/ \E lit \in DiffLiterals :
              \/ probe = [phase |-> "input", wrap |-> "rawdiff", json |-> stringify(DiffResponse(lit)),
                          text |-> RawDiffText(lit), out |-> ParseResponse(<<>>)]
              \/ probe = [phase |-> "input", wrap |-> "escdiff", json |-> stringify(DiffResponse(lit)),
                          text |-> stringify(DiffResponse(lit)), out |-> ParseResponse(<<>>)]

\* The text parses: the handler goes on with the coerced value.
ParseAccepted ==
    /\ probe.phase = "input"
    /\ ParseResponse(probe.text).ok
    /\ probe' = [probe EXCEPT !.phase = "done", !.out = ParseResponse(probe.text)]
    /\ UNCHANGED programVars

\* No candidate parses: the catch block returns ERROR.
ParseRejected ==
    /\ probe.phase = "input"
    /\ ~ParseResponse(probe.text).ok
    /\ probe' = [probe EXCEPT !.phase = "done", !.out = ParseResponse(probe.text)]
    /\ UNCHANGED programVars

ParseNext == ParseAccepted \/ ParseRejected

SpecParse == ParseInit /\ [][ParseNext]_vars

\* C1: a response wrapped in a json fence derives the same parsed value as the
\* same JSON text unwrapped, for every valid JSON text J.
C1_FencedParsesAsBare ==
    (probe.phase = "done" /\ probe.wrap = "fence_json")
        => probe.out = ParseResponse(probe.json)

HasMember(v, key) == v.t = "obj" /\ \E i \in 1..Len(v.kids) : v.kids[i].s = <<key>>

\* C2 as stated: an array is handled as COMPLETED with the array as the edits; an
\* object with no status field and an array-valued code_changes is handled as
\* COMPLETED with those edits; every other value is used unchanged.
C2_CoercionAsStated ==
    (probe.phase = "done" /\ probe.out.ok) =>
        LET p == probe.out.parsed
            d == probe.out.data
        IN IF isArray(p)
           THEN Dispatch(d) = "COMPLETED" /\ Get(d, "code_changes") = p
           ELSE IF p.t = "obj" /\ ~HasMember(p, "status") /\ isArray(Get(p, "code_changes"))
                THEN Dispatch(d) = "COMPLETED"
                     /\ Get(d, "code_changes") = Get(p, "code_changes")
                ELSE d = p

\* C2 as amended: the second rule also applies when the status field is present
\* but falsy (null, the empty string, 0 or false).
C2_Coercion ==
    (probe.phase = "done" /\ probe.out.ok) =>
        LET p == probe.out.parsed
            d == probe.out.data
        IN IF isArray(p)
           THEN Dispatch(d) = "COMPLETED" /\ Get(d, "code_changes") = p
           ELSE IF p.t = "obj" /\ ~Truthy(Get(p, "status")) /\ isArray(Get(p, "code_changes"))
                THEN Dispatch(d) = "COMPLETED"
                     /\ Get(d, "code_changes") = Get(p, "code_changes")
                     /\ Get(d, "request_files") = Get(p, "request_files")
                ELSE d = p

\* C2 witness: an object whose status is present but null, with an array-valued
\* code_changes, has been coerced to COMPLETED.
C2_Witness ==
    /\ probe.phase = "done"
    /\ probe.out.ok
    /\ HasMember(probe.out.parsed, "status")
    /\ Get(probe.out.parsed, "status") = JNull
    /\ isArray(Get(probe.out.parsed, "code_changes"))
    /\ Dispatch(probe.out.data) = "COMPLETED"

\* The positions of token c in t.
PositionsOf(t, c) == {i \in 1..Len(t) : t[i] = c}
MaxOf(S) == CHOOSE x \in S : \A y \in S : y <= x

\* The four candidates of a text, an absent one written as the empty text:
\* the fenced one, the whole text, first [ to last ], first { to last }.
FencedOf(t) ==
    LET F == PositionsOf(t, FENCE)
    IN IF F = {} THEN <<>>
       ELSE IF F \ {MinOf(F)} # {}
            THEN trim(StripJsonTag(trim(SubSeq(t, MinOf(F) + 1, MinOf(F \ {MinOf(F)}) - 1))))
            ELSE trim(StripTrailingFence(StripLeadingFence(t)))
SpanOf(t, open, close) ==
    LET O == PositionsOf(t, open)
        C == PositionsOf(t, close)
    IN IF O # {} /\ C # {} /\ MaxOf(C) > MinOf(O) THEN SubSeq(t, MinOf(O), MaxOf(C)) ELSE <<>>
CandidatesInOrder(t) == <<FencedOf(t), t, SpanOf(t, "[", "]"), SpanOf(t, "{", "}")>>
\* The candidates that are not empty and parse as strict JSON.
Parsing(cs) == {i \in 1..Len(cs) : cs[i] # <<>> /\ JSONparse(cs[i]).ok}

\* C22: the candidates are tried in a fixed order: the interior of the first
\* fenced block without its json tag (or, without a closing fence, the text
\* with a leading and a trailing fence marker stripped), the whole trimmed
\* text, first [ to last ], first { to last }, all taken from the text as the
\* repair of diff literals leaves it.  The parsed value is that of the first
\* non-empty candidate that parses as strict JSON, and the text is rejected
\* exactly when none does.
C22_FirstCandidateWins ==
    probe.phase = "done" =>
        LET cs == CandidatesInOrder(normalizeJsonLikeResponse(trim(probe.text)))
        IN IF Parsing(cs) = {} THEN ~probe.out.ok
           ELSE probe.out.ok /\ probe.out.parsed = JSONparse(cs[MinOf(Parsing(cs))]).val

\* C22 witness: a text handled of which two candidates parse to different
\* values, the earlier one being the fenced candidate and the later one the
\* whole text; and a text handled whose whole text fails and whose [..] and
\* {..} candidates both parse.
C22_Witness ==
    /\ probe.phase = "done"
    /\ probe.out.ok
    /\ LET cs == CandidatesInOrder(normalizeJsonLikeResponse(trim(probe.text)))
       IN \/ /\ {1, 2} \subseteq Parsing(cs)
             /\ JSONparse(cs[1]).val # JSONparse(cs[2]).val
             /\ probe.out.parsed = JSONparse(cs[1]).val
          \/ /\ Parsing(cs) = {3, 4}
             /\ JSONparse(cs[3]).val # JSONparse(cs[4]).val
             /\ probe.out.parsed = JSONparse(cs[3]).val

\* C23: repair of unescaped diff text: a response whose "content" string holds
\* a SEARCH ... REPLACE literal spanning raw newlines is rewritten by
\* normalizeJsonLikeResponse so that it parses as strict JSON, the handler
\* accepts it, and the parsed content equals the literal diff text.
C23_RepairYieldsJson ==
    (probe.phase = "done" /\ probe.wrap = "rawdiff") =>
        /\ JSONparse(normalizeJsonLikeResponse(probe.text)) = JSONparse(probe.json)
        /\ probe.out.ok
        /\ probe.out.parsed = JSONparse(probe.json).val

\* C30: pre-normalization does not change a response that is already valid
\* JSON: for every handled text t that parses as strict JSON, one whose DIFF
\* content is a correctly escaped SEARCH ... REPLACE string included, the value
\* parsed from normalizeJsonLikeResponse(t) is the value parsed from t.
C30_NormalizationKeepsValidJson ==
    (probe.phase = "done" /\ JSONparse(probe.text).ok) =>
        JSONparse(normalizeJsonLikeResponse(probe.text)) = JSONparse(probe.text)

\* C31: a response made of one valid JSON object with unfenced prose before
\* and after it is parsed to that object: the handler accepts the text, the
\* parsed value is the object, the status acted upon is the one the object
\* alone would be acted upon with, and no array nested in the object is the
\* parsed value.
C31_ProseObjectParsed ==
    (probe.phase = "done" /\ probe.wrap = "prose" /\ JSONparse(probe.json).val.t = "obj") =>
        LET obj == JSONparse(probe.json).val
        IN /\ probe.out.ok
           /\ probe.out.parsed = obj
           /\ ~isArray(probe.out.parsed)
           /\ Dispatch(probe.out.data) = Dispatch(ParseResponse(probe.json).data)

-----------------------------------------------------------------------------
(* SpecPatch: the patch engine applied to one file content *)

\* Most pieces a file content of a single-block diff is made of.
MaxContentPieces == 3
\* Most lines in a hunk drawn for patch envelopes.
MaxHunkLines == 2

\* Pieces that contents and search texts are concatenated from: a line ended by
\* LF, one ended by CRLF, an unended line, a lone carriage return.
Pieces == {<<"x", NL>>, <<"x", CR, NL>>, <<"x">>, <<CR>>}

PieceTexts(n) == {Concat(q) : q \in SeqsUpTo(Pieces, n)}

Block(search, replace) == [search |-> search, replace |-> replace]

\* The text of a DIFF edit holding the given blocks, its lines ended by eol.
DiffText(blocks, eol) ==
    join([i \in 1..Len(blocks) |->
             <<SEARCH>> \o eol \o blocks[i].search \o eol \o <<SEP>> \o eol
             \o blocks[i].replace \o eol \o <<REPLACE>>], eol)

EolStyles == {<<NL>>, <<CR, NL>>}

\* Search texts of the single-block diffs: the pieces, the empty text, and texts
\* that span an end of line.
SearchTexts == Pieces \cup {<<>>, <<NL, "x">>, <<"x", NL, "x">>, <<"x", CR>>}

\* Single-block diffs against every short content made of the pieces.
OneBlockInputs ==
    {[kind |-> "one_block", original |-> c, blocks |-> <<Block(se, re)>>,
      changes |-> <<Change(<<"a.ts">>, "DIFF", DiffText(<<Block(se, re)>>, eol))>>] :
        c \in PieceTexts(MaxContentPieces),
        se \in SearchTexts,
        re \in {<<"z">>, <<"z", CR, NL, "z">>},
        eol \in EolStyles}

\* The scenario of the specification: line1/line2/line3, line2 -> CHANGED.
ScenarioInput ==
    [kind |-> "one_block", original |-> <<"line1", NL, "line2", NL, "line3">>,
     blocks |-> <<Block(<<"line2">>, <<"CHANGED">>)>>,
     changes |-> <<Change(<<"a.ts">>, "DIFF",
                          DiffText(<<Block(<<"line2">>, <<"CHANGED">>)>>, <<NL>>))>>]

SmallBlocks ==
    {Block(<<"x">>, <<"z">>), Block(<<"y">>, <<"z">>), Block(<<"z">>, <<"y">>),
     Block(<<"q">>, <<"w">>)}

SmallContents == SeqsUpTo({"x", "y"}, 2)

\* Two blocks in one DIFF edit, and two DIFF edits for the same file.
TwoBlockInputs ==
    {[kind |-> "two_blocks", original |-> c, blocks |-> <<b1, b2>>,
      changes |-> <<Change(<<"a.ts">>, "DIFF", DiffText(<<b1, b2>>, <<NL>>))>>] :
        c \in SmallContents, b1 \in SmallBlocks, b2 \in SmallBlocks}
    \cup
    {[kind |-> "two_edits", original |-> c, blocks |-> <<b1, b2>>,
      changes |-> <<Change(<<"a.ts">>, "DIFF", DiffText(<<b1>>, <<NL>>)),
                    Change(<<"a.ts">>, "DIFF", DiffText(<<b2>>, <<NL>>))>>] :
        c \in SmallContents, b1 \in SmallBlocks, b2 \in SmallBlocks}

\* Lines a hunk is drawn from: context, removed and added lines, some of them
\* holding the text of a block marker.
HunkLineChoices ==
    {<<SP, "x">>, <<"-", "x">>, <<"+", "y">>, <<SP, SEP>>, <<"-", SEP>>, <<"+", SEP>>,
     <<"+", REPLACE>>, <<"+", SEARCH>>}

NonEmptySeqsUpTo(S, n) == SeqsUpTo(S, n) \ {<<>>}

\* The envelope of part_004:453-458 around the given hunks for path.
PatchText(path, hunks) ==
    <<BEGINPATCH, NL, UPDATE, SP>> \o path \o <<NL>>
    \o Concat([i \in 1..Len(hunks) |-> <<HUNK, NL>> \o join(hunks[i], <<NL>>) \o <<NL>>])
    \o <<ENDPATCH>>

PatchContents ==
    {<<>>, <<"x">>, <<"x", NL, "y">>, <<"x", NL, SEP, NL, "w">>, <<SEP, NL, "x">>}

PatchInputs ==
    {[kind |-> "patch", original |-> c, blocks |-> <<>>,
      changes |-> <<Change(<<"a.ts">>, "PATCH", PatchText(<<"a.ts">>, <<h>>))>>] :
        c \in PatchContents, h \in NonEmptySeqsUpTo(HunkLineChoices, MaxHunkLines)}
    \cup
    {[kind |-> "patch", original |-> c, blocks |-> <<>>,
      changes |-> <<Change(<<"a.ts">>, "PATCH",
                           PatchText(<<"a.ts">>, <<<<l1>>, <<l2>>>>))>>] :
        c \in PatchContents, l1 \in HunkLineChoices, l2 \in HunkLineChoices}

\* Most lines of the envelopes drawn line by line.
MaxEnvelopeLines == 4

\* Lines those envelopes are drawn from: the header of a section for the
\* edit's own path and for another path, a hunk delimiter, a removed, an added
\* and a context line, and the end marker.
EnvelopeLineChoices ==
    {<<UPDATE, SP, "a.ts">>, <<UPDATE, SP, "b.ts">>, <<HUNK>>, <<"-", "x">>, <<"+", "y">>,
     <<SP, "k">>, <<ENDPATCH>>}

\* PATCH edits of a.ts whose envelope is any sequence of those lines.
EnvelopeInputs ==
    {[kind |-> "envelope", original |-> c, blocks |-> <<>>,
      changes |-> <<Change(<<"a.ts">>, "PATCH", join(ls, <<NL>>))>>] :
        c \in {<<"x">>, <<"k", NL, "x">>},
        ls \in NonEmptySeqsUpTo(EnvelopeLineChoices, MaxEnvelopeLines)}

\* Spans with malformed delimiters: a SEARCH marker with nothing after its
\* text, one with a separator but no REPLACE marker, a separator and a REPLACE
\* marker without SEARCH, and a SEARCH marker not followed by an end of line.
MalformedSpans ==
    {<<SEARCH, NL, "x">>,
     <<SEARCH, NL, "x", NL, SEP, NL, "q">>,
     <<SEP, NL, "q", NL, REPLACE>>,
     <<SEARCH, "x", NL, SEP, NL, "q", NL, REPLACE>>}

\* DIFF edits holding a malformed span alone, before a well-formed block and
\* after one; blocks lists the well-formed blocks of the text.
MalformedInputs ==
    {[kind |-> "malformed", original |-> c, blocks |-> <<>>,
      changes |-> <<Change(<<"a.ts">>, "DIFF", m)>>] :
        c \in {<<"x", NL, "y">>, <<"y">>}, m \in MalformedSpans}
    \cup
    {[kind |-> "malformed", original |-> c, blocks |-> <<Block(<<"y">>, <<"z">>)>>,
      changes |-> <<Change(<<"a.ts">>, "DIFF", t)>>] :
        c \in {<<"x", NL, "y">>, <<"y">>},
        t \in UNION {{m \o <<NL>> \o DiffText(<<Block(<<"y">>, <<"z">>)>>, <<NL>>),
                      DiffText(<<Block(<<"y">>, <<"z">>)>>, <<NL>>) \o <<NL>> \o m} :
                        m \in MalformedSpans}}

\* FULL_REWRITE edits against every small prior content; an absent file is read
\* as the empty content (part_004:279).
RewriteInputs ==
    {[kind |-> "rewrite", original |-> c, blocks |-> <<>>,
      changes |-> <<Change(<<"a.ts">>, "FULL_REWRITE", n)>>] :
        c \in SmallContents \cup {<<"x", CR, NL>>},
        n \in {<<>>, <<"x">>, <<"n", CR, NL, "n">>, <<SEARCH, NL, "x">>}}

\* Edits whose one block has an empty search text, written in three ways: a
\* DIFF block whose ======= line follows the SEARCH line, a DIFF block with an
\* empty line between the two, and a PATCH hunk made of + lines only.  blocks
\* holds the block meant; an absent file is read as the empty content.
EmptySearchTexts(lines) ==
    {Change(<<"a.ts">>, "DIFF",
            <<SEARCH, NL, SEP, NL>> \o join(lines, <<NL>>) \o <<NL, REPLACE>>),
     Change(<<"a.ts">>, "DIFF", DiffText(<<Block(<<>>, join(lines, <<NL>>))>>, <<NL>>)),
     Change(<<"a.ts">>, "PATCH",
            PatchText(<<"a.ts">>, <<[i \in 1..Len(lines) |-> <<"+">> \o lines[i]]>>))}
EmptySearchInputs ==
    UNION {{[kind |-> "empty_search", original |-> c,
             blocks |-> <<Block(<<>>, join(lines, <<NL>>))>>, changes |-> <<ch>>] :
               c \in {<<>>, <<"x">>, <<"x", NL, "y">>, <<"x", CR, NL, "y">>},
               ch \in EmptySearchTexts(lines)} :
           lines \in {<<<<"z">>>>, <<<<"z">>, <<"w">>>>}}

PatchProbeInputs ==
    OneBlockInputs \cup {ScenarioInput} \cup TwoBlockInputs \cup PatchInputs \cup RewriteInputs
    \cup EnvelopeInputs \cup MalformedInputs \cup EmptySearchInputs

NoOutcome == [content |-> <<>>, warned |-> 0]

PatchInit ==
    /\ ProgramInit
    /\ \E i \in PatchProbeInputs :
           probe = [phase |-> "input", kind |-> i.kind, original |-> i.original,
                    blocks |-> i.blocks, changes |-> i.changes, out |-> NoOutcome]

\* Every block of every change is found.
PatchAppliesClean ==
    /\ probe.phase = "input"
    /\ \E r \in {FoldChanges(probe.original, probe.changes, 0)} :
          /\ r.warned = 0
          /\ probe' = [probe EXCEPT !.phase = "done", !.out = r]
    /\ UNCHANGED programVars

\* Some block is not found: a warning is shown for it.
PatchAppliesWarning ==
    /\ probe.phase = "input"
    /\ \E r \in {FoldChanges(probe.original, probe.changes, 0)} :
          /\ r.warned > 0
          /\ probe' = [probe EXCEPT !.phase = "done", !.out = r]
    /\ UNCHANGED programVars

PatchNext == PatchAppliesClean \/ PatchAppliesWarning

SpecPatch == PatchInit /\ [][PatchNext]_vars

\* Offsets (0-based) at which needle occurs in s.
Occurrences(s, needle) ==
    {i \in 0..(Len(s) - Len(needle)) : \A k \in 1..Len(needle) : s[i + k] = needle[k]}

\* s with the len tokens at offset i replaced by r.
Splice(s, i, len, r) == SubSeq(s, 1, i) \o r \o SubSeq(s, i + len + 1, Len(s))

\* C6: a FULL_REWRITE edit produces its own content whatever the prior content
\* is, and applying it again to the result gives the same content.
C6_FullRewrite ==
    (probe.phase = "done" /\ probe.kind = "rewrite") =>
        LET content == Get(probe.changes[1], "content").s
        IN /\ probe.out.content = content
           /\ FoldChanges(probe.out.content, probe.changes, 0).content = content

\* C6 witness: a rewrite has been applied over a prior content that differs from it.
C6_Witness ==
    /\ probe.phase = "done"
    /\ probe.kind = "rewrite"
    /\ probe.original # <<>>
    /\ probe.original # Get(probe.changes[1], "content").s
    /\ probe.out.content = Get(probe.changes[1], "content").s

\* C7 as stated: when the search text of a single-block DIFF occurs exactly once
\* in the target content, the result is the target with that span replaced and
\* the rest unchanged apart from CRLF being turned into LF.  (Stated for search
\* texts that hold no carriage return and do not start with a line feed, so that
\* the span never cuts a CRLF pair in two.)
C7_ReplaceAsStated ==
    (probe.phase = "done" /\ probe.kind = "one_block") =>
        LET diff == Get(probe.changes[1], "content").s
            b == ExecBlock(diff, 1)
            occ == Occurrences(probe.original, b.search)
        IN (/\ b.ok
            /\ ~ExecBlock(diff, b.next).ok
            /\ b.search # <<>>
            /\ CR \notin Range(b.search)
            /\ b.search[1] # NL
            /\ Cardinality(occ) = 1)
           => LET i == MinOf(occ)
              IN probe.out.content =
                     normalize(SubSeq(probe.original, 1, i)) \o b.replace
                     \o normalize(SubSeq(probe.original, i + Len(b.search) + 1,
                                         Len(probe.original)))

\* C7 as amended: when the search text with its CRLF turned into LF occurs exactly
\* once in the target content with its CRLF turned into LF, the result is that
\* normalized content with exactly that span replaced by the replace text as
\* written, and no warning is shown.
C7_ReplaceOnce ==
    (probe.phase = "done" /\ probe.kind = "one_block") =>
        LET diff == Get(probe.changes[1], "content").s
            b == ExecBlock(diff, 1)
            target == normalize(probe.original)
            search == normalize(b.search)
            occ == Occurrences(target, search)
        IN (b.ok /\ ~ExecBlock(diff, b.next).ok /\ Cardinality(occ) = 1)
           => /\ probe.out.content = Splice(target, MinOf(occ), Len(search), b.replace)
              /\ probe.out.warned = 0

\* C7 witness: the scenario line1/line2/line3 with line2 replaced by CHANGED.
C7_Witness ==
    /\ probe.phase = "done"
    /\ probe.kind = "one_block"
    /\ probe.original = <<"line1", NL, "line2", NL, "line3">>
    /\ probe.out.content = <<"line1", NL, "CHANGED", NL, "line3">>

\* What one block does to a content according to the specification: the first
\* occurrence of the normalized search text in the normalized content is
\* replaced; a content without an occurrence is left as it is.
RefStep(c, b) ==
    LET occ == Occurrences(normalize(c), normalize(b.search))
    IN IF occ = {} THEN c
       ELSE Splice(normalize(c), MinOf(occ), Len(normalize(b.search)), b.replace)

RefMiss(c, b) == IF Occurrences(normalize(c), normalize(b.search)) = {} THEN 1 ELSE 0

Occurs(c, b) == Occurrences(normalize(c), normalize(b.search)) # {}

\* C24: the blocks of one DIFF edit are applied in the order of the edit's text,
\* each searched for in the content the previous block produced: the result of
\* a two-block edit is the second block applied to what the first made of the
\* content; a second block whose search text only the first block's replacement
\* introduced is found, and one whose search text the first block removed is
\* not found and leaves what the first block produced.
C24_BlocksInOrder ==
    (probe.phase = "done" /\ probe.kind = "two_blocks") =>
        LET b1 == probe.blocks[1]
            b2 == probe.blocks[2]
            mid == RefStep(probe.original, b1)
        IN /\ probe.out.content = RefStep(mid, b2)
           /\ (~Occurs(probe.original, b2) /\ Occurs(mid, b2)) =>
                  /\ probe.out.warned = 0
                  /\ probe.out.content # mid
           /\ (Occurs(probe.original, b2) /\ ~Occurs(mid, b2)) =>
                  /\ probe.out.warned = 1
                  /\ probe.out.content = mid

\* C24 witness: the second block of an edit has replaced text that only the
\* first block's replacement introduced.
C24_Witness ==
    /\ probe.phase = "done"
    /\ probe.kind = "two_blocks"
    /\ Occurs(probe.original, probe.blocks[1])
    /\ ~Occurs(probe.original, probe.blocks[2])
    /\ Occurs(RefStep(probe.original, probe.blocks[1]), probe.blocks[2])
    /\ probe.out.content # RefStep(probe.original, probe.blocks[1])
    /\ probe.out.content # probe.original

\* Applying one search/replace block per hunk, in order.
RECURSIVE DirectApply(_, _)
DirectApply(c, hunks) ==
    IF hunks = <<>> THEN c
    ELSE DirectApply(RefStep(c, Block(join(HunkSearch(Head(hunks)), <<NL>>),
                                      join(HunkReplace(Head(hunks)), <<NL>>))),
                     Tail(hunks))

\* C10: converting the hunks of a PATCH edit to SEARCH/REPLACE text and running
\* applySearchReplace on it gives the same content as applying one block per
\* hunk directly, for every hunk.
C10_PatchAgreesWithDirect ==
    (probe.phase = "done" /\ probe.kind = "patch") =>
        LET patch == Get(probe.changes[1], "content").s
            path == Get(probe.changes[1], "file_path").s
        IN probe.out.content = DirectApply(probe.original, PatchHunks(patch, path))

-----------------------------------------------------------------------------
(* The file system and the editor, as the handlers use them *)

\* An absolute path is a sequence of segments, a segment a sequence of tokens;
\* <<>> is the file system's root.  path.join(base, rel): rel is split at "/",
\* empty and "." segments vanish, ".." steps up.
RECURSIVE NormalizeSegs(_, _)
NormalizeSegs(segs, acc) ==
    IF segs = <<>> THEN acc
    ELSE LET h == Head(segs)
         IN IF h = <<>> \/ h = <<".">> THEN NormalizeSegs(Tail(segs), acc)
            ELSE IF h = <<"..">>
                 THEN NormalizeSegs(Tail(segs), IF acc = <<>> THEN <<>>
                                                ELSE SubSeq(acc, 1, Len(acc) - 1))
            ELSE NormalizeSegs(Tail(segs), Append(acc, h))

FolderPath(folder) == <<Seg(folder)>>
JoinPath(folder, rel) == NormalizeSegs(split(rel, "/", <<>>), FolderPath(folder))
Dirname(p) == IF p = <<>> THEN <<>> ELSE SubSeq(p, 1, Len(p) - 1)
Prefixes(p) == {SubSeq(p, 1, k) : k \in 0..Len(p)}
IsPrefix(p, q) == Len(p) <= Len(q) /\ SubSeq(q, 1, Len(p)) = p

\* fs.existsSync
existsSync(ws, p) == p \in DOMAIN ws.files \/ p \in ws.dirs
\* fs.mkdirSync(d, {recursive: true}) throws when a file stands where a directory is needed.
MkdirThrows(ws, d) == \E q \in Prefixes(d) : q \in DOMAIN ws.files
mkdirSync(ws, d) == [ws EXCEPT !.dirs = @ \cup Prefixes(d)]

\* relativePath.split(sep).join('__') + '.txt'  (part_004:135, 326, 367)
flatName(rel) == join(split(rel, "/", <<>>), <<"__">>) \o <<".txt">>

STRUCT == <<"_PROJECT_STRUCTURE.txt">>
\* A round directory that does not depend on the index.
RoundPath_Flat(root, round) == <<root, 1>>
\* path.join(currentStagingRoot, `round_${currentRound}`)
RoundPath(root, round) == <<root, round>>
\* fs.mkdirSync(roundDir, {recursive: true}): an existing directory keeps its files.
mkdirRound(st, d) == IF d \in DOMAIN st THEN st ELSE st @@ (d :> <<>>)
\* fs.writeFileSync / fs.copyFileSync into a round directory
writeRound(st, d, name, content) == [st EXCEPT ![d] = (name :> content) @@ @]

\* part_004:437-482: the text depends on the goal alone; fileList is not used.
generateSystemPrompt(goal, fileList) == <<"system", goal>>
\* part_004:331
ReviewPrompt == <<"review">>
\* part_004:404-435, its text left abstract
generateFileTree(ws, folder) == <<"tree">>
\* part_004:107: names filtered out of the staging
IgnoredNames == {<<".git">>, <<".vscode">>, <<"node_modules">>, <<"dist">>, <<"out">>,
                 <<"build">>, <<"__pycache__">>, <<".DS_Store">>, <<"venv">>, <<".env">>}
ignores(relSegs) == \E i \in 1..Len(relSegs) : relSegs[i] \in IgnoredNames

\* part_004:547-588: the panel shows the prompt and the round directory.
updateWebview(ps, p, prompt, dir) ==
    IF p \in DOMAIN ps THEN [ps EXCEPT ![p].html = [prompt |-> prompt, dir |-> dir]] ELSE ps

\* A function without the key k.
Without(f, k) == [x \in DOMAIN f \ {k} |-> f[x]]

\* The notices of the program, by the call that shows them.
E_INVALID_JSON == "error: Invalid JSON"
W_NO_STATUS == "warning: Response missing valid status"
W_NO_CHANGES == "warning: COMPLETED but no code_changes"
W_NOT_FOUND == "warning: Could not find search block"
E_PREPARE == "error: Failed to prepare edit"
E_APPLY == "error: Failed to apply workspace edit"
I_APPLIED == "info: Applied changes"
I_ROUND == "info: Round prepared"
E_NO_CONTEXT == "error: No active workspace context"
E_NO_FOLDER == "error: No folder selected"

RECURSIVE Times(_, _)
Times(x, n) == IF n = 0 THEN <<>> ELSE <<x>> \o Times(x, n - 1)

-----------------------------------------------------------------------------
(* handleAIResponse, second half (part_004:260-386) *)

RecognizedType(change) ==
    \/ IsStr(Get(change, "type"), "FULL_REWRITE")
    \/ IsStr(Get(change, "type"), "DIFF")
    \/ IsStr(Get(change, "type"), "PATCH")

\* A grouping that puts the newest change of a file before its earlier ones.
AddChange_NewestFirst(groups, change) ==
    LET key == Get(change, "file_path")
    IN IF \E i \in 1..Len(groups) : groups[i].key = key
       THEN [i \in 1..Len(groups) |->
                IF groups[i].key = key
                THEN [groups[i] EXCEPT !.changes = <<change>> \o @] ELSE groups[i]]
       ELSE Append(groups, [key |-> key, changes |-> <<change>>])

\* changesByFile.set(change.file_path, arr): a Map keeps the keys in the order
\* of their first insertion.
AddChange(groups, change) ==
    LET key == Get(change, "file_path")
    IN IF \E i \in 1..Len(groups) : groups[i].key = key
       THEN [i \in 1..Len(groups) |->
                IF groups[i].key = key
                THEN [groups[i] EXCEPT !.changes = Append(@, change)] ELSE groups[i]]
       ELSE Append(groups, [key |-> key, changes |-> <<change>>])

\* part_004:265-272.  Reading change.type throws a TypeError when the entry is
\* null; on any other value that is no object it yields undefined.
RECURSIVE GroupChanges(_, _, _)
GroupChanges(changes, i, groups) ==
    IF i > Len(changes) THEN [thrown |-> FALSE, groups |-> groups]
    ELSE IF changes[i].t = "null" THEN [thrown |-> TRUE, groups |-> groups]
    ELSE IF RecognizedType(changes[i])
         THEN GroupChanges(changes, i + 1, AddChange(groups, changes[i]))
    ELSE GroupChanges(changes, i + 1, groups)

changesByFile(data) == GroupChanges(Get(data, "code_changes").kids, 1, <<>>)

\* part_004:261
HasChangeList(data) ==
    Truthy(Get(data, "code_changes")) /\ isArray(Get(data, "code_changes"))

\* part_004:274-311, from file i on, up to the first await, a throw or the end
\* of the loop.  path.join throws a TypeError on a key that is no string, and
\* that call stands outside the try block.
RECURSIVE PrepareFrom(_, _, _, _, _, _, _)
\* part_004:304-307: file i does not exist; f is what the changes make of ''.
FileCreated(groups, i, folder, edit, applied, ws, notes, targetPath, f) ==
    PrepareFrom(groups, i + 1, folder,
                Append(edit, [kind |-> "create", path |-> targetPath, len |-> 0,
                              text |-> f.content]),
                applied + 1, ws, notes \o Times(W_NOT_FOUND, f.warned))
PrepareFrom(groups, i, folder, edit, applied, ws, notes) ==
    IF i > Len(groups)
    THEN [pc |-> "ready", idx |-> i, edit |-> edit, applied |-> applied, ws |-> ws, notes |-> notes]
    ELSE IF groups[i].key.t # "str"
    THEN [pc |-> "thrown", idx |-> i, edit |-> edit, applied |-> applied, ws |-> ws, notes |-> notes]
    ELSE LET targetPath == JoinPath(folder, groups[i].key.s)
         IN IF MkdirThrows(ws, Dirname(targetPath))
            THEN PrepareFrom(groups, i + 1, folder, edit, applied, ws, Append(notes, E_PREPARE))
            ELSE LET ws2 == mkdirSync(ws, Dirname(targetPath))
                 IN IF existsSync(ws2, targetPath)
                    THEN [pc |-> "open", idx |-> i, edit |-> edit, applied |-> applied,
                          ws |-> ws2, notes |-> notes]
                    ELSE FileCreated(groups, i, folder, edit, applied, ws2, notes, targetPath,
                                     FoldChanges(<<>>, groups[i].changes, 0))

\* vscode.workspace.applyEdit, when it succeeds: a replace rewrites the range it
\* names in the document's buffer, a createFile puts an empty file on disk and
\* the insert fills its buffer.  The buffers stay unsaved.
RECURSIVE ApplyEdits(_, _)
ApplyEdits(ws, edit) ==
    IF edit = <<>> THEN ws
    ELSE LET e == Head(edit)
         IN IF e.kind = "replace"
            THEN LET buf == IF e.path \in DOMAIN ws.docs THEN ws.docs[e.path] ELSE ws.files[e.path]
                 IN ApplyEdits([ws EXCEPT !.docs = (e.path :> Splice(buf, 0, Min(e.len, Len(buf)), e.text)) @@ @],
                               Tail(edit))
            ELSE ApplyEdits([ws EXCEPT !.files = (e.path :> <<>>) @@ @,
                                       !.docs = (e.path :> e.text) @@ @], Tail(edit))

\* part_004:323-329: the copies of the review round.  fs.copyFileSync throws on
\* a directory; the catch of part_004:335 then ends the block.
RECURSIVE CopyModified(_, _, _, _, _)
CopyModified(groups, i, ws, folder, acc) ==
    IF i > Len(groups) THEN acc
    ELSE LET fp == groups[i].key.s
             srcPath == JoinPath(folder, fp)
         IN IF srcPath \in ws.dirs THEN [acc EXCEPT !.thrown = TRUE]
            ELSE IF srcPath \in DOMAIN ws.files
                 THEN CopyModified(groups, i + 1, ws, folder,
                          [acc EXCEPT !.files = (flatName(fp) :> ws.files[srcPath]) @@ @])
            ELSE CopyModified(groups, i + 1, ws, folder, acc)

\* part_004:363-372: the copies of the requested files.  path.join throws on an
\* entry that is no string, fs.copyFileSync on a directory; nothing catches them.
RECURSIVE CopyRequested(_, _, _, _, _)
CopyRequested(reqs, i, ws, folder, acc) ==
    IF i > Len(reqs) THEN acc
    ELSE IF reqs[i].t # "str" THEN [acc EXCEPT !.thrown = TRUE]
    ELSE LET srcPath == JoinPath(folder, reqs[i].s)
         IN IF srcPath \in ws.dirs THEN [acc EXCEPT !.thrown = TRUE]
            ELSE IF srcPath \in DOMAIN ws.files
                 THEN CopyRequested(reqs, i + 1, ws, folder,
                          [acc EXCEPT !.files = (flatName(reqs[i].s) :> ws.files[srcPath]) @@ @,
                                      !.staged = Append(@, reqs[i].s)])
            ELSE CopyRequested(reqs, i + 1, ws, folder, acc)

-----------------------------------------------------------------------------
(* Spec: the extension as a state machine.  A step is what a handler does
   between two awaits. *)

\* Staging runs the model follows.
MaxTasks == 2
\* handleAIResponse invocations the model follows.
MaxCalls == 2

Goals == {"fix"}

Requests(paths) == JMem(<<"request_files">>, JArr([i \in 1..Len(paths) |-> JStr(paths[i])]))

\* The texts pasted or posted: the values a model may answer with, and malformed ones.
Responses ==
    << stringify(JNull),
       <<"Sorry", SP, "no", SP, "JSON">>,
       stringify(JObj(<<Status("DONE")>>)),
       stringify(JObj(<<Status("NEED_CONTEXT"), Requests(<<<<"a.ts">>, <<"missing.ts">>>>),
            Changes(<<Change(<<"a.ts">>, "FULL_REWRITE", <<"hack">>)>>)>>)),
       stringify(JObj(<<Status("NEED_CONTEXT"), Requests(<<<<"src">>>>)>>)),
       stringify(JObj(<<Status("COMPLETED"),
            Changes(<<JObj(<<JMem(<<"file_path">>, JStr(<<"c.ts">>)),
                             JMem(<<"type">>, Str("RENAME"))>>),
                      Change(<<"a.ts">>, "FULL_REWRITE", <<"new">>),
                      JObj(<<JMem(<<"file_path">>, JStr(<<"a.ts">>))>>)>>)>>)),
       stringify(JObj(<<Status("COMPLETED"),
            Changes(<<Change(<<"src", "/", "b.ts">>, "FULL_REWRITE", <<"b">>),
                      Change(<<"a.ts">>, "FULL_REWRITE", <<"n">>)>>)>>)),
       Wrap("fence_json", stringify(JObj(<<Status("COMPLETED"), Requests(<<<<"a.ts">>>>)>>))),
       stringify(JObj(<<Status("COMPLETED"),
            Changes(<<JNull, Change(<<"a.ts">>, "FULL_REWRITE", <<"n">>)>>)>>)),
       stringify(JObj(<<Status("COMPLETED"),
            Changes(<<JObj(<<JMem(<<"type">>, Str("FULL_REWRITE")),
                             JMem(<<"content">>, JStr(<<"c">>))>>)>>)>>)),
       stringify(JObj(<<Status("COMPLETED"),
            Changes(<<Change(<<"src">>, "FULL_REWRITE", <<"d">>),
                      Change(<<"a.ts">>, "DIFF", DiffText(<<Block(<<"gone">>, <<"y">>)>>, <<NL>>))>>)>>)),
       <<FENCE, "json", NL, "{", Q, "status", Q, ":", "}", NL, FENCE>>,
       stringify(JObj(<<Status("COMPLETED"),
            Changes(<<Change(<<"d.ts">>, "DIFF", DiffText(<<Block(<<"gone">>, <<"y">>)>>, <<NL>>))>>),
            Requests(<<<<"a.ts">>>>)>>)),
       stringify(JObj(<<Status("COMPLETED"), Changes(<<>>)>>)),
       stringify(JObj(<<Status("COMPLETED"), JMem(<<"code_changes">>, Str("none"))>>)),
       stringify(JObj(<<Status("COMPLETED"),
            Changes(<<JObj(<<JMem(<<"file_path">>, JStr(<<"c.ts">>)),
                             JMem(<<"type">>, Str("RENAME"))>>),
                      JObj(<<JMem(<<"file_path">>, JStr(<<"a.ts">>))>>)>>)>>)),
       stringify(JObj(<<Status("COMPLETED"), Changes(<<JNull>>)>>)),
       stringify(JObj(<<Status("COMPLETED"),
            Changes(<<Change(<<"a.ts">>, "PATCH",
                             PatchText(<<"a.ts">>, <<<<<<"-", "old">>, <<"+", "new">>>>>>))>>)>>)),
       stringify(JObj(<<Status("COMPLETED"),
            Changes(<<Change(<<"a.ts">>, "PATCH",
                             PatchText(<<"a.ts">>, <<<<<<"-", "x">>, <<"+", "y">>>>>>))>>)>>)) >>

NoProbe == [phase |-> "none"]

Init ==
    /\ GlobalsInit
    /\ workspace \in {DiskInit, [DiskInit EXCEPT !.folders = <<>>]}
    /\ probe = NoProbe

\* An invocation of handleAIResponse: its arguments, its position and its
\* locals.  task notes the staging root in force when the invocation began, for
\* as long as the invocation runs; the code keeps no such value, it is here for
\* the properties of the tasks to read.
NewCall(r, folder, goal) ==
    [pc |-> "start", resp |-> r, folder |-> folder, goal |-> goal,
     idx |-> 0, edit |-> <<>>, applied |-> 0, action |-> "NONE",
     task |-> currentStagingRoot]
\* The promise resolves with {action}.
Returned(rec, action) ==
    [rec EXCEPT !.pc = "done", !.action = action, !.idx = 0, !.edit = <<>>, !.task = 0]
\* The promise rejects.
Rejected(rec) == [rec EXCEPT !.pc = "thrown", !.idx = 0, !.edit = <<>>, !.task = 0]
SetCall(k, rec) == IF k > Len(call) THEN Append(call, rec) ELSE [call EXCEPT ![k] = rec]
\* What part_004:200-258 makes of each text.
Parsed == [r \in DOMAIN Responses |-> ParseResponse(Responses[r])]
DataOf(r) == Parsed[r].data
\* The changesByFile of an invocation that reaches part_004:262.
GroupsOf(p) ==
    IF p.ok /\ Dispatch(p.data) = "COMPLETED" /\ HasChangeList(p.data)
    THEN changesByFile(p.data) ELSE [thrown |-> FALSE, groups |-> <<>>]
Grouped == [r \in DOMAIN Responses |-> GroupsOf(Parsed[r])]

\* The responses that patch a file, which SpecRace draws, and the others, which
\* Spec draws.
PatchResponses ==
    {r \in DOMAIN Responses :
        /\ Grouped[r].groups # <<>>
        /\ IsStr(Get(Grouped[r].groups[1].changes[1], "type"), "PATCH")}
GeneralResponses == DOMAIN Responses \ PatchResponses

\* The catch block that also opens a round.
ResponseUnparseable_OpensRound(r, p, folder, goal) ==
    /\ ~p.ok
    /\ call' = Append(call, Returned(NewCall(r, folder, goal), "ERROR"))
    /\ notices' = <<E_INVALID_JSON>>
    /\ currentRound' = currentRound + 1
    /\ UNCHANGED <<currentStagingRoot, currentRoundDir, currentWorkspaceRoot, currentUserGoal,
                   lastSystemPrompt, currentPanel, panels, workspace, staging, stage, probe>>

\* part_004:255-258
ResponseUnparseable(r, p, folder, goal) ==
    /\ ~p.ok
    /\ call' = Append(call, Returned(NewCall(r, folder, goal), "ERROR"))
    /\ notices' = <<E_INVALID_JSON>>
    /\ UNCHANGED <<currentStagingRoot, currentRoundDir, currentWorkspaceRoot, currentUserGoal,
                   currentRound, lastSystemPrompt, currentPanel, panels, workspace, staging,
                   stage, probe>>

\* part_004:260 on the value null
ResponseThrows(r, p, folder, goal) ==
    /\ p.ok
    /\ Dispatch(p.data) = "THROW"
    /\ call' = Append(call, Rejected(NewCall(r, folder, goal)))
    /\ notices' = <<>>
    /\ UNCHANGED <<currentStagingRoot, currentRoundDir, currentWorkspaceRoot, currentUserGoal,
                   currentRound, lastSystemPrompt, currentPanel, panels, workspace, staging,
                   stage, probe>>

\* An UNKNOWN branch that also opens a round.
ResponseUnknown_OpensRound(r, p, folder, goal) ==
    /\ p.ok
    /\ Dispatch(p.data) = "UNKNOWN"
    /\ call' = Append(call, Returned(NewCall(r, folder, goal), "UNKNOWN"))
    /\ notices' = <<W_NO_STATUS>>
    /\ currentRound' = currentRound + 1
    /\ staging' = mkdirRound(staging, RoundPath(currentStagingRoot, currentRound + 1))
    /\ UNCHANGED <<currentStagingRoot, currentRoundDir, currentWorkspaceRoot, currentUserGoal,
                   lastSystemPrompt, currentPanel, panels, workspace, stage, probe>>

\* part_004:383-386
ResponseUnknown(r, p, folder, goal) ==
    /\ p.ok
    /\ Dispatch(p.data) = "UNKNOWN"
    /\ call' = Append(call, Returned(NewCall(r, folder, goal), "UNKNOWN"))
    /\ notices' = <<W_NO_STATUS>>
    /\ UNCHANGED <<currentStagingRoot, currentRoundDir, currentWorkspaceRoot, currentUserGoal,
                   currentRound, lastSystemPrompt, currentPanel, panels, workspace, staging,
                   stage, probe>>

\* part_004:354-372: the directory of the new round filled; st is the staging
\* after mkdirSync, c.files the directory's files.
RoundRequested(st, roundDir, ws, folder, data) ==
    LET first == RoundPath(currentStagingRoot, 1)
        hasStruct == first \in DOMAIN st /\ STRUCT \in DOMAIN st[first]
        rf == Get(data, "request_files")
    IN CopyRequested(IF Truthy(rf) /\ isArray(rf) THEN rf.kids ELSE <<>>, 1, ws, folder,
                     [files |-> IF hasStruct THEN (STRUCT :> st[first][STRUCT]) @@ st[roundDir]
                                ELSE st[roundDir],
                      staged |-> IF hasStruct THEN <<STRUCT>> ELSE <<>>,
                      thrown |-> FALSE])

\* A NEED_CONTEXT branch that restages into the current round.
ResponseNeedContext_SameRound(r, p, folder, goal) ==
    /\ p.ok
    /\ Dispatch(p.data) = "NEED_CONTEXT"
    /\ \E roundDir \in {RoundPath(currentStagingRoot, currentRound)} :
       \E c \in {RoundRequested(mkdirRound(staging, roundDir), roundDir, workspace, folder,
                                p.data)} :
          /\ currentRoundDir' = roundDir
          /\ staging' = [mkdirRound(staging, roundDir) EXCEPT ![roundDir] = c.files]
          /\ notices' = <<I_ROUND>>
          /\ call' = Append(call, Returned(NewCall(r, folder, goal), "NEED_CONTEXT"))
    /\ UNCHANGED <<currentStagingRoot, currentWorkspaceRoot, currentUserGoal, currentPanel,
                   currentRound, lastSystemPrompt, panels, workspace, stage, probe>>

\* part_004:346-382
ResponseNeedContext(r, p, folder, goal) ==
    /\ p.ok
    /\ Dispatch(p.data) = "NEED_CONTEXT"
    /\ \E roundDir \in {RoundPath(currentStagingRoot, currentRound + 1)} :
       \E c \in {RoundRequested(mkdirRound(staging, roundDir), roundDir, workspace, folder,
                                p.data)} :
          /\ currentRound' = currentRound + 1
          /\ currentRoundDir' = roundDir
          /\ staging' = [mkdirRound(staging, roundDir) EXCEPT ![roundDir] = c.files]
          /\ IF c.thrown
             THEN /\ call' = Append(call, Rejected(NewCall(r, folder, goal)))
                  /\ notices' = <<>>
                  /\ UNCHANGED <<lastSystemPrompt, panels>>
             ELSE /\ lastSystemPrompt' = generateSystemPrompt(goal, c.staged)
                  /\ panels' = updateWebview(panels, currentPanel,
                                             generateSystemPrompt(goal, c.staged), roundDir)
                  /\ notices' = <<I_ROUND>>
                  /\ call' = Append(call, Returned(NewCall(r, folder, goal), "NEED_CONTEXT"))
    /\ UNCHANGED <<currentStagingRoot, currentWorkspaceRoot, currentUserGoal, currentPanel,
                   workspace, stage, probe>>

\* Where invocation k stands after the loop of part_004:274-311 ran up to res.
Proceed(k, rec, res) ==
    /\ workspace' = res.ws
    /\ IF res.pc = "thrown"
       THEN call' = SetCall(k, Rejected(rec)) /\ notices' = res.notes
       ELSE IF res.pc = "open"
       THEN /\ call' = SetCall(k, [rec EXCEPT !.pc = "open", !.idx = res.idx,
                                              !.edit = res.edit, !.applied = res.applied])
            /\ notices' = res.notes
       ELSE IF res.applied > 0
       THEN /\ call' = SetCall(k, [rec EXCEPT !.pc = "apply", !.idx = res.idx,
                                              !.edit = res.edit, !.applied = res.applied])
            /\ notices' = res.notes
       ELSE /\ call' = SetCall(k, Returned(rec, "COMPLETED"))
            /\ notices' = Append(res.notes, W_NO_CHANGES)
    /\ UNCHANGED <<currentStagingRoot, currentRoundDir, currentWorkspaceRoot, currentUserGoal,
                   currentRound, lastSystemPrompt, currentPanel, panels, staging, stage, probe>>

\* part_004:260-311 up to the first await
ResponseCompleted(r, p, folder, goal) ==
    /\ p.ok
    /\ Dispatch(p.data) = "COMPLETED"
    /\ \E g \in {Grouped[r]} :
          IF ~HasChangeList(p.data)
          THEN /\ call' = Append(call, Returned(NewCall(r, folder, goal), "COMPLETED"))
               /\ notices' = <<W_NO_CHANGES>>
               /\ UNCHANGED <<currentStagingRoot, currentRoundDir, currentWorkspaceRoot,
                              currentUserGoal, currentRound, lastSystemPrompt, currentPanel,
                              panels, workspace, staging, stage, probe>>
          ELSE IF g.thrown
          THEN /\ call' = Append(call, Rejected(NewCall(r, folder, goal)))
               /\ notices' = <<>>
               /\ UNCHANGED <<currentStagingRoot, currentRoundDir, currentWorkspaceRoot,
                              currentUserGoal, currentRound, lastSystemPrompt, currentPanel,
                              panels, workspace, staging, stage, probe>>
          ELSE \E res \in {PrepareFrom(g.groups, 1, folder, <<>>, 0, workspace, <<>>)} :
                   Proceed(Len(call) + 1, NewCall(r, folder, goal), res)

\* part_004:198-387, from the call to the first await or to the return
\* A handler that answers ERROR to everything once a COMPLETED response has
\* been handled.
handleAIResponse_RefusesAfterCompleted(r, folder, goal) ==
    /\ Len(call) < MaxCalls
    /\ IF \E k \in DOMAIN call : call[k].pc = "done" /\ call[k].action = "COMPLETED"
       THEN /\ call' = Append(call, Returned(NewCall(r, folder, goal), "ERROR"))
            /\ notices' = <<E_INVALID_JSON>>
            /\ UNCHANGED <<currentStagingRoot, currentRoundDir, currentWorkspaceRoot,
                           currentUserGoal, currentRound, lastSystemPrompt, currentPanel,
                           panels, workspace, staging, stage, probe>>
       ELSE \E p \in {Parsed[r]} :
               \/ ResponseUnparseable(r, p, folder, goal)
               \/ ResponseThrows(r, p, folder, goal)
               \/ ResponseUnknown(r, p, folder, goal)
               \/ ResponseNeedContext(r, p, folder, goal)
               \/ ResponseCompleted(r, p, folder, goal)

handleAIResponse(r, folder, goal) ==
    /\ Len(call) < MaxCalls
    /\ \E p \in {Parsed[r]} :
          \/ ResponseUnparseable(r, p, folder, goal)
          \/ ResponseThrows(r, p, folder, goal)
          \/ ResponseUnknown(r, p, folder, goal)
          \/ ResponseNeedContext(r, p, folder, goal)
          \/ ResponseCompleted(r, p, folder, goal)

\* A loop that leaves out a file whose content comes out as it was read.
Opened_SkipsUnchanged(f, rec, ws, targetPath, text) ==
    IF f.content = text
    THEN [edit |-> rec.edit, applied |-> rec.applied,
          ws |-> [ws EXCEPT !.docs = (targetPath :> text) @@ @],
          notes |-> Times(W_NOT_FOUND, f.warned)]
    ELSE [edit |-> Append(rec.edit, [kind |-> "replace", path |-> targetPath, len |-> Len(text),
                                     text |-> f.content]),
          applied |-> rec.applied + 1,
          ws |-> [ws EXCEPT !.docs = (targetPath :> text) @@ @],
          notes |-> Times(W_NOT_FOUND, f.warned)]
\* part_004:282-307 for the file openTextDocument was asked for: what the loop
\* holds when it moves on to the next file.
Opened(f, rec, ws, targetPath, text) ==
    [edit |-> Append(rec.edit, [kind |-> "replace", path |-> targetPath, len |-> Len(text),
                                text |-> f.content]),
     applied |-> rec.applied + 1,
     ws |-> [ws EXCEPT !.docs = (targetPath :> text) @@ @],
     notes |-> Times(W_NOT_FOUND, f.warned)]
AfterOpen(rec, ws, changes, targetPath) ==
    IF targetPath \notin DOMAIN ws.files
    THEN [edit |-> rec.edit, applied |-> rec.applied, ws |-> ws, notes |-> <<E_PREPARE>>]
    ELSE \* doc.getText(): the buffer when the document is open, else the file
         IF targetPath \in DOMAIN ws.docs
         THEN Opened(FoldChanges(ws.docs[targetPath], changes, 0), rec, ws, targetPath,
                     ws.docs[targetPath])
         ELSE Opened(FoldChanges(ws.files[targetPath], changes, 0), rec, ws, targetPath,
                     ws.files[targetPath])

\* part_004:282-311: openTextDocument settles for file idx of invocation k; the
\* loop goes on to the next await.
OpenTextDocumentSettles(k) ==
    /\ k \in DOMAIN call
    /\ call[k].pc = "open"
    /\ \E groups \in {Grouped[call[k].resp].groups} :
       \E a \in {AfterOpen(call[k], workspace, groups[call[k].idx].changes,
                           JoinPath(call[k].folder, groups[call[k].idx].key.s))} :
       \E res \in {PrepareFrom(groups, call[k].idx + 1, call[k].folder, a.edit, a.applied,
                               a.ws, a.notes)} :
          Proceed(k, call[k], res)

\* How many edits of a batch a failed applyEdit may have carried out: a batch of
\* text edits alone is applied all or nothing; with a createFile in it the
\* operation aborts at the edit that fails and keeps the ones before it.
FailedPrefixes(edit) ==
    IF \E i \in 1..Len(edit) : edit[i].kind = "create" THEN 0..(Len(edit) - 1) ELSE {0}

\* part_004:314-345: applyEdit settles for invocation k.
ApplyEditSettles(k, success) ==
    /\ k \in DOMAIN call
    /\ call[k].pc = "apply"
    /\ call' = [call EXCEPT ![k] = Returned(@, "COMPLETED")]
    /\ IF ~success
       THEN /\ notices' = <<E_APPLY>>
            /\ \E n \in FailedPrefixes(call[k].edit) :
                   workspace' = ApplyEdits(workspace, SubSeq(call[k].edit, 1, n))
            /\ UNCHANGED <<currentRound, currentRoundDir, lastSystemPrompt, panels, staging>>
       ELSE \E roundDir \in {RoundPath(currentStagingRoot, currentRound + 1)} :
            \E ws2 \in {ApplyEdits(workspace, call[k].edit)} :
            \E c \in {CopyModified(Grouped[call[k].resp].groups, 1, ws2, call[k].folder,
                                   [files |-> mkdirRound(staging, roundDir)[roundDir],
                                    thrown |-> FALSE])} :
               /\ notices' = <<I_APPLIED>>
               /\ workspace' = ws2
               /\ currentRound' = currentRound + 1
               /\ staging' = [mkdirRound(staging, roundDir) EXCEPT ![roundDir] = c.files]
               /\ IF c.thrown
                  THEN UNCHANGED <<currentRoundDir, lastSystemPrompt, panels>>
                  ELSE /\ currentRoundDir' = roundDir
                       /\ lastSystemPrompt' = ReviewPrompt
                       /\ panels' = updateWebview(panels, currentPanel, ReviewPrompt, roundDir)
    /\ UNCHANGED <<currentStagingRoot, currentWorkspaceRoot, currentUserGoal, currentPanel,
                   stage, probe>>

\* part_004:389-402: the base prompt followed by every file of the directory.
getPromptWithFiles(st, stagingDir, basePrompt) ==
    [served |-> TRUE, prompt |-> basePrompt,
     files |-> IF stagingDir \in DOMAIN st THEN st[stagingDir] ELSE <<>>]
\* part_004:37-45: what GET /prompt answers in the current state: the warning
\* while no round directory exists, else the payload of getPromptWithFiles.
PromptReply ==
    IF currentRoundDir = <<>> \/ currentRoundDir \notin DOMAIN staging
    THEN [served |-> FALSE, prompt |-> <<"WARNING">>, files |-> <<>>]
    ELSE getPromptWithFiles(staging, currentRoundDir, lastSystemPrompt)

\* part_004:36-46: GET /prompt answers with a warning or with the prompt and the
\* files of the current round; it reads and shows nothing in the editor.
getPrompt ==
    /\ notices' = <<>>
    /\ UNCHANGED <<currentStagingRoot, currentRoundDir, currentWorkspaceRoot, currentUserGoal,
                   currentRound, lastSystemPrompt, currentPanel, panels, workspace, staging,
                   stage, call, probe>>

\* part_004:161-169: the panel posts processResponse; the handler runs with the
\* folder and the goal of the staging run that made the panel.
PanelMessage ==
    \E p \in DOMAIN panels, r \in GeneralResponses :
        handleAIResponse(r, panels[p].folder, panels[p].goal)

\* part_004:175-177 (also what POST /response runs, part_004:56)
applyResponse ==
    /\ currentWorkspaceRoot # ""
    /\ \E r \in GeneralResponses :
           handleAIResponse(r, currentWorkspaceRoot, currentUserGoal)

\* part_004:178-181
applyResponseNoContext ==
    /\ currentWorkspaceRoot = ""
    /\ notices' = <<E_NO_CONTEXT>>
    /\ UNCHANGED <<currentStagingRoot, currentRoundDir, currentWorkspaceRoot, currentUserGoal,
                   currentRound, lastSystemPrompt, currentPanel, panels, workspace, staging,
                   stage, call, probe>>

\* part_004:103-141: the tree and the open documents of the folder go to round_1.
RelSegs(folder, d) == SubSeq(d, Len(FolderPath(folder)) + 1, Len(d))
RelativePath(folder, d) == join(RelSegs(folder, d), <<"/">>)
StagedDocs(ws, folder) ==
    {d \in DOMAIN ws.docs :
        /\ IsPrefix(FolderPath(folder), d)
        /\ ~ignores(RelSegs(folder, d))
        /\ \A i \in 1..Len(RelSegs(folder, d)) : RelSegs(folder, d)[i] # STRUCT}
Round1Files(ws, folder) ==
    LET names == {flatName(RelativePath(folder, d)) : d \in StagedDocs(ws, folder)}
    IN [n \in names \cup {STRUCT} |->
           IF n = STRUCT THEN generateFileTree(ws, folder)
           ELSE ws.docs[CHOOSE d \in StagedDocs(ws, folder) : flatName(RelativePath(folder, d)) = n]]

StageFiles(root, folder, st) ==
    /\ currentWorkspaceRoot' = folder
    /\ staging' = [st EXCEPT ![RoundPath(root, 1)] = Round1Files(workspace, folder) @@ @]
    /\ stage' = [pc |-> "goal", root |-> root, folder |-> folder,
                 staged |-> <<STRUCT>>]
    /\ notices' = <<>>

\* part_004:80-101, and on to the input box when a folder is open
StageBegins ==
    /\ stage.pc = "idle"
    /\ currentStagingRoot < MaxTasks
    /\ LET root == currentStagingRoot + 1
           st == mkdirRound(staging, RoundPath(root, 1))
       IN /\ currentRound' = 1
          /\ currentStagingRoot' = root
          /\ currentRoundDir' = RoundPath(root, 1)
          /\ IF workspace.folders # <<>>
             THEN StageFiles(root, workspace.folders[1], st)
             ELSE /\ staging' = st
                  /\ stage' = [pc |-> "pick", root |-> root, folder |-> "", staged |-> <<>>]
                  /\ notices' = <<>>
                  /\ UNCHANGED currentWorkspaceRoot
    /\ UNCHANGED <<currentUserGoal, lastSystemPrompt, currentPanel, panels, workspace,
                   call, probe>>

\* part_004:93-101: the folder dialog closes.
StagePicked(picked) ==
    /\ stage.pc = "pick"
    /\ IF picked = ""
       THEN /\ notices' = <<E_NO_FOLDER>>
            /\ stage' = NoStage
            /\ UNCHANGED <<currentWorkspaceRoot, staging>>
       ELSE StageFiles(stage.root, picked, staging)
    /\ UNCHANGED <<currentStagingRoot, currentRoundDir, currentUserGoal, currentRound,
                   lastSystemPrompt, currentPanel, panels, workspace, call, probe>>

\* part_004:144-171: the input box closes.
StageGoalEntered(userGoal) ==
    /\ stage.pc = "goal"
    /\ stage' = NoStage
    /\ notices' = <<>>
    /\ IF userGoal = ""
       THEN UNCHANGED <<currentUserGoal, lastSystemPrompt, currentPanel, panels>>
       ELSE /\ currentUserGoal' = userGoal
            /\ lastSystemPrompt' = generateSystemPrompt(userGoal, stage.staged)
            /\ currentPanel' = stage.root
            /\ panels' = (stage.root :>
                            [folder |-> stage.folder, goal |-> userGoal,
                             html |-> [prompt |-> generateSystemPrompt(userGoal, stage.staged),
                                       dir |-> RoundPath(stage.root, 1)]]) @@ panels
    /\ UNCHANGED <<currentStagingRoot, currentRoundDir, currentWorkspaceRoot, currentRound,
                   workspace, staging, call, probe>>

\* part_004:171: a panel is closed, whichever it is.
PanelDisposed(p) ==
    /\ p \in DOMAIN panels
    /\ panels' = Without(panels, p)
    /\ currentPanel' = 0
    /\ notices' = <<>>
    /\ UNCHANGED <<currentStagingRoot, currentRoundDir, currentWorkspaceRoot, currentUserGoal,
                   currentRound, lastSystemPrompt, workspace, staging, stage, call, probe>>

Next ==
    \/ StageBegins
    \/ \E picked \in {"", WsFolder} : StagePicked(picked)
    \/ \E userGoal \in Goals \cup {""} : StageGoalEntered(userGoal)
    \/ applyResponse
    \/ applyResponseNoContext
    \/ PanelMessage
    \/ \E k \in 1..MaxCalls : OpenTextDocumentSettles(k)
    \/ \E k \in 1..MaxCalls, success \in BOOLEAN : ApplyEditSettles(k, success)
    \/ \E p \in 1..MaxTasks : PanelDisposed(p)
    \/ getPrompt

Spec == Init /\ [][Next]_vars

TypeOK ==
    /\ currentStagingRoot \in 0..MaxTasks
    /\ currentRound \in 1..(MaxCalls + 1)
    /\ Len(call) <= MaxCalls

-----------------------------------------------------------------------------
(* Properties of handleAIResponse as a whole *)

\* A step in which handleAIResponse is called, and the invocation it starts.
CallBegins == Len(call') = Len(call) + 1
Begun == call'[Len(call')]

\* The texts of which no candidate parses.
Unparseable ==
    {r \in DOMAIN Responses :
        LET cs == Candidates(normalizeJsonLikeResponse(trim(Responses[r])))
        IN \A i \in 1..Len(cs) : cs[i] = <<>> \/ ~JSONparse(cs[i]).ok}

\* The texts whose value has no status, or one that is neither COMPLETED nor
\* NEED_CONTEXT, and that no coercion rule touches.
Unrecognized ==
    {r \in DOMAIN Responses \ Unparseable :
        /\ DataOf(r) = Parsed[r].parsed
        /\ ~IsStr(Get(DataOf(r), "status"), "COMPLETED")
        /\ ~IsStr(Get(DataOf(r), "status"), "NEED_CONTEXT")}

\* C3: when the parsed value has no status or an unrecognized one and no
\* coercion applies, handleAIResponse returns UNKNOWN with a warning, writes no
\* workspace file, creates no round directory and leaves currentRound,
\* currentRoundDir and lastSystemPrompt as they were.
C3_UnrecognizedStatusIsUnknown ==
    [][(CallBegins /\ Begun.resp \in Unrecognized) =>
          /\ Begun.pc = "done"
          /\ Begun.action = "UNKNOWN"
          /\ notices' = <<W_NO_STATUS>>
          /\ UNCHANGED <<workspace, staging, currentRound, currentRoundDir, lastSystemPrompt>>]_vars

\* C4: when no candidate of the text parses, handleAIResponse shows an error
\* and returns ERROR, and the task state and the workspace files are as before
\* the call.
C4_UnparseableLeavesState ==
    [][(CallBegins /\ Begun.resp \in Unparseable) =>
          /\ Begun.pc = "done"
          /\ Begun.action = "ERROR"
          /\ notices' = <<E_INVALID_JSON>>
          /\ UNCHANGED <<currentRound, currentStagingRoot, currentRoundDir,
                         currentWorkspaceRoot, currentUserGoal, lastSystemPrompt>>
          /\ UNCHANGED workspace]_vars

\* A staged task has received an unparseable text and answered ERROR.
C4_Witness ==
    /\ currentUserGoal # ""
    /\ \E k \in DOMAIN call :
           /\ call[k].resp \in Unparseable
           /\ call[k].pc = "done"
           /\ call[k].action = "ERROR"

\* C5: whatever the text, handleAIResponse never throws or rejects: every
\* invocation is running or has returned ERROR, COMPLETED, NEED_CONTEXT or UNKNOWN.
C5_NeverThrows ==
    \A k \in DOMAIN call :
        /\ call[k].pc # "thrown"
        /\ call[k].pc = "done" =>
               call[k].action \in {"ERROR", "COMPLETED", "NEED_CONTEXT", "UNKNOWN"}

\* The names a NEED_CONTEXT response asks for that are files under the folder.
RequestedNames(ws, folder, data) ==
    LET rf == Get(data, "request_files")
        reqs == IF isArray(rf) THEN rf.kids ELSE <<>>
    IN {flatName(reqs[i].s) : i \in {j \in 1..Len(reqs) :
            /\ reqs[j].t = "str"
            /\ JoinPath(folder, reqs[j].s) \in DOMAIN ws.files
            /\ IsPrefix(FolderPath(folder), JoinPath(folder, reqs[j].s))}}

\* C9: when handleAIResponse returns NEED_CONTEXT, the files of the new round
\* are the requested paths that exist on disk under the workspace folder, plus
\* the structure listing when the round before the new one has one, and no
\* listing when that round has none.
C9_NewRoundFileSet ==
    [][(CallBegins /\ Begun.pc = "done" /\ Begun.action = "NEED_CONTEXT") =>
          LET before == RoundPath(currentStagingRoot, currentRound)
              listing == IF before \in DOMAIN staging /\ STRUCT \in DOMAIN staging[before]
                         THEN {STRUCT} ELSE {}
          IN DOMAIN staging'[currentRoundDir'] =
                 RequestedNames(workspace, Begun.folder, DataOf(Begun.resp)) \cup listing]_vars

-----------------------------------------------------------------------------
(* Properties of the two payloads and of the write-back *)

\* Invocation k takes a step: it begins, or it resumes after an await.
Stepped(k) == k \in DOMAIN call' /\ (k \notin DOMAIN call \/ call'[k] # call[k])

\* The response of invocation rec parsed to a value whose status is the word w.
StatusIs(rec, w) == Parsed[rec.resp].ok /\ IsStr(Get(DataOf(rec.resp), "status"), w)

\* The entries of an array member of a response, <<>> when it has no such array.
Entries(r, member) ==
    IF Parsed[r].ok /\ isArray(Get(DataOf(r), member)) THEN Get(DataOf(r), member).kids ELSE <<>>

\* The flat names of the paths a response asks for and of the paths it edits.
RequestedFlat(r) ==
    LET reqs == Entries(r, "request_files")
    IN {flatName(reqs[i].s) : i \in {j \in 1..Len(reqs) : reqs[j].t = "str"}}
EditedFlat(r) ==
    LET cs == Entries(r, "code_changes")
    IN {flatName(Get(cs[i], "file_path").s) :
            i \in {j \in 1..Len(cs) : Get(cs[j], "file_path").t = "str"}}

\* The files a step writes into round directory d.
Written(d) ==
    {n \in DOMAIN staging'[d] :
        d \notin DOMAIN staging \/ n \notin DOMAIN staging[d] \/ staging'[d][n] # staging[d][n]}

\* C11: the status decides the payload used: no step of an invocation whose
\* response has status NEED_CONTEXT changes the workspace (files on disk or
\* editor buffers), whatever code_changes it carries, and no step of an
\* invocation whose response has status COMPLETED writes into a round directory
\* a file named after a path of its request_files that it does not also edit.
C11_StatusDecidesPayload ==
    [][\A k \in DOMAIN call' : Stepped(k) =>
          /\ StatusIs(call'[k], "NEED_CONTEXT") => workspace' = workspace
          /\ StatusIs(call'[k], "COMPLETED") =>
                 \A d \in DOMAIN staging' :
                     Written(d) \cap (RequestedFlat(call'[k].resp) \ EditedFlat(call'[k].resp)) = {}]_vars

\* A NEED_CONTEXT response that carries code_changes has opened its round, and a
\* COMPLETED response that carries request_files has been applied and has its
\* review round.
C11_Witness ==
    /\ \E k \in DOMAIN call :
           /\ StatusIs(call[k], "NEED_CONTEXT")
           /\ Entries(call[k].resp, "code_changes") # <<>>
           /\ call[k].pc = "done" /\ call[k].action = "NEED_CONTEXT"
    /\ \E k \in DOMAIN call :
           /\ StatusIs(call[k], "COMPLETED")
           /\ RequestedFlat(call[k].resp) # {}
           /\ call[k].pc = "done" /\ call[k].applied > 0
           /\ lastSystemPrompt = ReviewPrompt
           /\ JoinPath(call[k].folder, <<"a.ts">>) \in DOMAIN workspace.files

\* An entry whose type is one of the three kinds of edit.
TypeKnown(c) ==
    Get(c, "type").t = "str" /\ Get(c, "type").s \in {<<"FULL_REWRITE">>, <<"DIFF">>, <<"PATCH">>}

\* The entries of a response that name a path; those of them with a known type
\* that name the path fp, in the order of the response.
Named(r) == SelectSeq(Entries(r, "code_changes"), LAMBDA c : Get(c, "file_path").t = "str")
KnownAt(r, fp) == SelectSeq(Named(r), LAMBDA c : TypeKnown(c) /\ Get(c, "file_path").s = fp)

\* The targets of the entries of known type, and the targets that only entries
\* of another or of no type name.
KnownPaths(rec) ==
    {JoinPath(rec.folder, Get(Named(rec.resp)[i], "file_path").s) :
        i \in {j \in 1..Len(Named(rec.resp)) : TypeKnown(Named(rec.resp)[j])}}
DroppedPaths(rec) ==
    {JoinPath(rec.folder, Get(Named(rec.resp)[i], "file_path").s) :
        i \in 1..Len(Named(rec.resp))} \ KnownPaths(rec)

\* The file_path an edit of the batch stands for.
KeyOf(rec, path) ==
    CHOOSE fp \in {Get(Named(rec.resp)[i], "file_path").s : i \in 1..Len(Named(rec.resp))} :
        JoinPath(rec.folder, fp) = path

\* C12: an entry of code_changes whose type is missing or is none of
\* FULL_REWRITE, DIFF, PATCH is dropped without an error.  In every step of an
\* invocation on a COMPLETED response: a path that only such entries name stays
\* as it is on disk and in the editor and is never in the batch; every edit
\* added to the batch is for a path of a known-type entry and carries what the
\* known-type entries of that path make of the text read; the applied count is
\* the size of the batch; the batch handed to applyEdit has every such path
\* that is a file; and the invocation does not throw unless a known-type entry
\* lacks its file_path.
C12_UnrecognizedEntryDropped ==
    [][\A k \in DOMAIN call' : (Stepped(k) /\ StatusIs(call'[k], "COMPLETED")) =>
          LET rec == call'[k]
              had == IF k \in DOMAIN call THEN Len(call[k].edit) ELSE 0
          IN /\ \A p \in DroppedPaths(rec) :
                    /\ (p \in DOMAIN workspace'.files) = (p \in DOMAIN workspace.files)
                    /\ (p \in DOMAIN workspace'.docs) = (p \in DOMAIN workspace.docs)
                    /\ \A i \in 1..Len(rec.edit) : rec.edit[i].path # p
             /\ \A i \in (had + 1)..Len(rec.edit) :
                    /\ rec.edit[i].path \in KnownPaths(rec)
                    /\ rec.edit[i].text =
                           FoldChanges(IF rec.edit[i].kind = "create" THEN <<>>
                                       ELSE workspace'.docs[rec.edit[i].path],
                                       KnownAt(rec.resp, KeyOf(rec, rec.edit[i].path)), 0).content
             /\ rec.pc \in {"open", "apply"} => rec.applied = Len(rec.edit)
             /\ rec.pc = "apply" =>
                    \A p \in KnownPaths(rec) \cap DOMAIN workspace'.files :
                        \E i \in 1..Len(rec.edit) : rec.edit[i].path = p
             /\ (\A i \in 1..Len(Entries(rec.resp, "code_changes")) :
                     TypeKnown(Entries(rec.resp, "code_changes")[i]) =>
                         Get(Entries(rec.resp, "code_changes")[i], "file_path").t = "str")
                    => rec.pc # "thrown"]_vars

\* The edits of a batch whose file does not hold the edit's content in the editor.
Unwritten(edit, ws) ==
    {i \in 1..Len(edit) : ~(edit[i].path \in DOMAIN ws.docs /\ ws.docs[edit[i].path] = edit[i].text)}

\* C13: a failure concerning one file of a COMPLETED response does not stop the
\* other files of that response from being changed: when the write-back of an
\* invocation is reported as failed, at most one file of its batch is left
\* without its new content.
C13_FailureSparesOtherFiles ==
    [][\A k \in DOMAIN call :
          (call[k].pc = "apply" /\ Stepped(k) /\ notices' = <<E_APPLY>>) =>
              Cardinality(Unwritten(call[k].edit, workspace')) <= 1]_vars

-----------------------------------------------------------------------------
(* Properties of the task state and of the rounds *)

\* C14: at most one response is being processed at a time for a task: while
\* only one task has ever been staged, and its staging has finished, no
\* invocation of handleAIResponse begins while an earlier one is still between
\* its start and its return.
C14_OneResponseAtATime ==
    [][(CallBegins /\ currentStagingRoot = 1 /\ stage.pc = "idle" /\ currentUserGoal # "") =>
          \A k \in DOMAIN call : call[k].pc \in {"done", "thrown"}]_vars

\* C15: the task state is replaced as a whole when a task starts: whenever
\* ai-bridge.applyResponse handles a response (with currentWorkspaceRoot and
\* currentUserGoal), the six variables come from one stageWorkspace invocation.
\* While an invocation waits at the folder picker or at the goal prompt,
\* currentRound, currentStagingRoot and currentRoundDir are already its own,
\* and a goal that is set is an earlier invocation's; so a response handled with
\* a goal finds no invocation waiting.
C15_TaskStateFromOneStaging ==
    [][(/\ CallBegins
        /\ currentWorkspaceRoot # ""
        /\ Begun.folder = currentWorkspaceRoot
        /\ Begun.goal = currentUserGoal
        /\ currentUserGoal # "") => stage.pc = "idle"]_vars

\* C16: after a COMPLETED response whose edits are applied, the review round
\* holds, for every file of the batch, the content that results from the
\* edits: when applyEdit has succeeded and the review round has been staged,
\* each file of the batch has its copy there and the copy is the file's text
\* in the editor after the edits.
C16_ReviewHoldsPostEdit ==
    [][\A k \in DOMAIN call :
          (/\ call[k].pc = "apply" /\ Stepped(k)
           /\ notices' = <<I_APPLIED>>
           /\ currentRoundDir' = RoundPath(currentStagingRoot, currentRound')
           /\ currentRoundDir' # currentRoundDir) =>
              \A i \in 1..Len(call[k].edit) :
                  LET e == call[k].edit[i]
                      name == flatName(KeyOf(call[k], e.path))
                  IN /\ name \in DOMAIN staging'[currentRoundDir']
                     /\ staging'[currentRoundDir'][name] = workspace'.docs[e.path]]_vars

\* A step that creates a round directory or raises currentRound.
RoundOpened == DOMAIN staging' # DOMAIN staging \/ currentRound' > currentRound
\* ... made by stageWorkspace starting a task: round 1 of a new staging root
StageOpensRound ==
    /\ stage.pc = "idle" /\ stage'.pc # "idle"
    /\ currentStagingRoot' = currentStagingRoot + 1
    /\ currentRound' = 1
    /\ DOMAIN staging' = DOMAIN staging \cup {RoundPath(currentStagingRoot', 1)}
\* ... by an invocation on a NEED_CONTEXT response
NeedContextOpensRound ==
    /\ CallBegins /\ StatusIs(Begun, "NEED_CONTEXT")
    /\ currentRound' = currentRound + 1
    /\ DOMAIN staging' = DOMAIN staging \cup {RoundPath(currentStagingRoot, currentRound')}
\* ... by an invocation on a COMPLETED response whose applyEdit has succeeded
ReviewOpensRound ==
    /\ \E k \in DOMAIN call :
           /\ call[k].pc = "apply" /\ Stepped(k) /\ StatusIs(call[k], "COMPLETED")
           /\ call[k].applied > 0
    /\ notices' = <<I_APPLIED>>
    /\ currentRound' = currentRound + 1
    /\ DOMAIN staging' = DOMAIN staging \cup {RoundPath(currentStagingRoot, currentRound')}

\* C17 as stated: round 1 is created when stageWorkspace starts a task and a
\* round N+1 only while a NEED_CONTEXT response is handled; no other event
\* creates a round directory or raises currentRound.
C17_RoundsOnlyByNeedContext ==
    [][RoundOpened => (StageOpensRound \/ NeedContextOpensRound)]_vars

\* C17: round 1 is created when stageWorkspace starts a task; a round N+1 is
\* created only while a NEED_CONTEXT response is handled or when the edits of a
\* COMPLETED response have been applied (the review round); no other event (a
\* COMPLETED response that applies nothing or whose write-back fails, an
\* UNKNOWN, unparseable or throwing response, GET /prompt, a panel closing)
\* creates a round directory or raises currentRound.
C17_RoundsOpenedBy ==
    [][RoundOpened => (StageOpensRound \/ NeedContextOpensRound \/ ReviewOpensRound)]_vars

\* A task has had a round opened by a NEED_CONTEXT response and a review round
\* opened by an applied COMPLETED response: it stands at round 3.
C17_Witness ==
    /\ currentRound = 3
    /\ RoundPath(currentStagingRoot, 3) \in DOMAIN staging
    /\ \E k \in DOMAIN call : call[k].pc = "done" /\ call[k].action = "NEED_CONTEXT"
    /\ \E k \in DOMAIN call :
           call[k].pc = "done" /\ call[k].action = "COMPLETED" /\ call[k].applied > 0

\* C18: a round is never mutated after creation: a step changes the files of
\* an existing round directory only when it is the stageWorkspace invocation
\* that made round_1 filling it after the folder picker; every other step
\* leaves each existing round directory as it is, and none is removed.
C18_RoundsNeverMutated ==
    [][\A d \in DOMAIN staging :
          /\ d \in DOMAIN staging'
          /\ staging'[d] # staging[d] =>
                 /\ stage.pc = "pick" /\ stage'.pc = "goal"
                 /\ d = RoundPath(stage.root, 1)
                 /\ staging[d] = <<>>]_vars

\* Two tasks have been staged and responses have opened further rounds next to
\* the filled round_1 of the first task.
C18_Witness ==
    /\ currentStagingRoot = 2
    /\ RoundPath(1, 1) \in DOMAIN staging /\ STRUCT \in DOMAIN staging[RoundPath(1, 1)]
    /\ RoundPath(1, 2) \in DOMAIN staging
    /\ RoundPath(2, 2) \in DOMAIN staging
    /\ \A k \in 1..MaxCalls : k \in DOMAIN call /\ call[k].pc = "done"

\* C19: within a task the round index starts at 1 and never decreases: a step
\* that keeps the staging root does not lower currentRound, and a step that
\* changes the staging root (stageWorkspace begins) sets currentRound to 1 with
\* round_1 made under the new root; each handled NEED_CONTEXT response raises
\* currentRound by exactly 1 and stages its files, and nothing else, in
\* round_<new currentRound> under the current staging root, which becomes
\* currentRoundDir.
C19_RoundIndex ==
    [][/\ currentStagingRoot' = currentStagingRoot => currentRound' >= currentRound
       /\ currentStagingRoot' # currentStagingRoot =>
              /\ currentRound' = 1
              /\ currentRoundDir' = RoundPath(currentStagingRoot', 1)
              /\ currentRoundDir' \in DOMAIN staging'
       /\ (CallBegins /\ StatusIs(Begun, "NEED_CONTEXT")) =>
              /\ currentRound' = currentRound + 1
              /\ currentStagingRoot' = currentStagingRoot
              /\ currentRoundDir' = RoundPath(currentStagingRoot, currentRound')
              /\ currentRoundDir' \in DOMAIN staging'
              /\ \A d \in DOMAIN staging' : Written(d) # {} => d = currentRoundDir'
              /\ Begun.pc = "done" =>
                     RequestedNames(workspace, Begun.folder, DataOf(Begun.resp))
                         \subseteq DOMAIN staging'[currentRoundDir']]_vars

\* Two NEED_CONTEXT responses have been handled in a task: the task stands at
\* round 3 and round_3 holds the requested file.
C19_Witness ==
    /\ currentRound = 3
    /\ currentRoundDir = RoundPath(currentStagingRoot, 3)
    /\ flatName(<<"a.ts">>) \in DOMAIN staging[currentRoundDir]
    /\ \A k \in 1..MaxCalls :
           k \in DOMAIN call /\ call[k].pc = "done" /\ call[k].action = "NEED_CONTEXT"

-----------------------------------------------------------------------------
(* Properties of the write-back batch *)

\* The paths of the batch of an invocation.
BatchPaths(rec) == {rec.edit[i].path : i \in 1..Len(rec.edit)}
\* A target the loop can prepare: it is no directory and its directory can be made.
Preparable(ws, target) == target \notin ws.dirs /\ ~MkdirThrows(ws, Dirname(target))
\* The invocation stands at applyEdit, or has returned from the COMPLETED branch.
PastLoop(rec) ==
    rec.pc = "apply" \/ (rec.pc = "done" /\ rec.action = "COMPLETED" /\ StatusIs(rec, "COMPLETED"))

-----------------------------------------------------------------------------
(* Properties of a COMPLETED response without usable edits *)

\* A response with status COMPLETED none of whose code_changes entries has one
\* of the three types: the member is absent, is not an array, is empty, or holds
\* only entries of another or of no type.
NoUsableEdits(r) ==
    /\ Parsed[r].ok /\ IsStr(Get(DataOf(r), "status"), "COMPLETED")
    /\ \A i \in 1..Len(Entries(r, "code_changes")) : ~TypeKnown(Entries(r, "code_changes")[i])

\* C21: a COMPLETED response with no usable edits (code_changes missing, not an
\* array, empty, or holding only entries of unrecognized type) is answered in the
\* step that begins its invocation: the invocation returns COMPLETED, the
\* warning that no code_changes were found is shown, and the workspace, the
\* rounds, currentRound, currentRoundDir and lastSystemPrompt stay as they were.
C21_EmptyChangeSetWarns ==
    [][(CallBegins /\ NoUsableEdits(Begun.resp)) =>
          /\ Begun.pc = "done" /\ Begun.action = "COMPLETED"
          /\ W_NO_CHANGES \in Range(notices')
          /\ UNCHANGED <<workspace, staging, currentRound, currentRoundDir, lastSystemPrompt>>]_vars

-----------------------------------------------------------------------------
(* Properties of responses that follow a COMPLETED response *)

\* Some invocation has returned COMPLETED.
CompletedSeen == \E k \in DOMAIN call : call[k].pc = "done" /\ call[k].action = "COMPLETED"

\* The response of invocation rec has edits the handler can prepare: no entry
\* is null, every entry of known type names its path, and there is such an entry.
HasPreparableEdits(rec) ==
    LET cs == Entries(rec.resp, "code_changes")
    IN /\ \A i \in 1..Len(cs) : cs[i].t # "null"
       /\ \A i \in 1..Len(cs) : TypeKnown(cs[i]) => Get(cs[i], "file_path").t = "str"
       /\ \E i \in 1..Len(cs) : TypeKnown(cs[i])

\* C29: no state refuses a response.  In every step that begins an invocation
\* after a COMPLETED response has been handled: a NEED_CONTEXT response raises
\* currentRound by one, creates the directory of that round and stages in it
\* every requested file that exists, with its content on disk, and an
\* invocation that returns from it returns NEED_CONTEXT; a COMPLETED response
\* with edits goes on to prepare them.  And when an applyEdit issued after a
\* COMPLETED response was handled succeeds, every edit of its batch is in the
\* editor.
C29_NoStateRefuses ==
    [][/\ (CallBegins /\ CompletedSeen /\ StatusIs(Begun, "NEED_CONTEXT")) =>
             LET dir == RoundPath(currentStagingRoot, currentRound + 1)
                 reqs == Entries(Begun.resp, "request_files")
             IN /\ currentRound' = currentRound + 1
                /\ dir \in DOMAIN staging'
                /\ \A i \in 1..Len(reqs) :
                       (reqs[i].t = "str"
                        /\ JoinPath(Begun.folder, reqs[i].s) \in DOMAIN workspace.files) =>
                           /\ flatName(reqs[i].s) \in DOMAIN staging'[dir]
                           /\ staging'[dir][flatName(reqs[i].s)] =
                                  workspace.files[JoinPath(Begun.folder, reqs[i].s)]
                /\ Begun.pc = "done" => Begun.action = "NEED_CONTEXT"
       /\ (CallBegins /\ CompletedSeen /\ StatusIs(Begun, "COMPLETED") /\ HasPreparableEdits(Begun)) =>
             Begun.pc \in {"open", "apply"}
       /\ \A k \in DOMAIN call :
             (/\ CompletedSeen
              /\ call[k].pc = "apply" /\ call'[k].pc = "done"
              /\ I_APPLIED \in Range(notices')) =>
                 \A i \in 1..Len(call[k].edit) :
                     /\ call[k].edit[i].path \in DOMAIN workspace'.docs
                     /\ workspace'.docs[call[k].edit[i].path] = call[k].edit[i].text]_vars

\* C29 witness: after a COMPLETED response was applied and its review round
\* made, a NEED_CONTEXT response has been handled: it returned NEED_CONTEXT, the
\* round after the review round is the current one and holds the requested file.
C29_Witness ==
    /\ Len(call) = 2
    /\ StatusIs(call[1], "COMPLETED") /\ call[1].pc = "done" /\ call[1].applied > 0
    /\ StatusIs(call[2], "NEED_CONTEXT") /\ call[2].pc = "done"
    /\ call[2].action = "NEED_CONTEXT"
    /\ currentRound = 3
    /\ currentRoundDir = RoundPath(currentStagingRoot, 3)
    /\ currentRoundDir \in DOMAIN staging
    /\ flatName(<<"a.ts">>) \in DOMAIN staging[currentRoundDir]

-----------------------------------------------------------------------------
(* Properties of the conversion of a patch envelope *)

\* The entries of cs at the positions of S, in the order of cs.
RECURSIVE Pick(_, _, _)
Pick(cs, S, i) ==
    IF i > Len(cs) THEN <<>>
    ELSE (IF i \in S THEN <<cs[i]>> ELSE <<>>) \o Pick(cs, S, i + 1)

IsUpdateLine(l) == l # <<>> /\ l[1] = UPDATE
\* Whether line i lies in a section for path target: the nearest section header
\* above it names target.
InSectionOf(lines, i, target) ==
    LET ups == {j \in 1..(i - 1) : IsUpdateLine(lines[j])}
    IN ups # {} /\ trim(Tail(lines[MaxOf(ups)])) = target
\* The lines that may contribute: those of sections for target that stand
\* before line cut.
Contributing(lines, target, cut) ==
    {i \in 1..(cut - 1) : ~IsUpdateLine(lines[i]) /\ InSectionOf(lines, i, target)}
\* The hunks among the lines of K: the runs of hunk lines that the @@ lines of
\* K delimit, the empty runs left out.
HunksAmong(lines, K) ==
    LET D == {i \in K : lines[i] # <<>> /\ lines[i][1] = HUNK}
        run(n) == Pick(lines, {i \in K : IsHunkLine(lines[i])
                                          /\ Cardinality({d \in D : d < i}) = n}, 1)
    IN SelectSeq([n \in 1..(Cardinality(D) + 1) |-> run(n - 1)], LAMBDA h : h # <<>>)
\* The lines of hunk h that start with a prefix of P, the prefix removed.
Unprefixed(h, P) ==
    LET kept == SelectSeq(h, LAMBDA l : l[1] \in P)
    IN [i \in 1..Len(kept) |-> Tail(kept[i])]
\* The text of the blocks of the given hunks, one block per hunk.
BlocksOf(hunks) ==
    join([i \in 1..Len(hunks) |->
             <<SEARCH, NL>> \o join(Unprefixed(hunks[i], {SP, "-"}), <<NL>>)
             \o <<NL, SEP, NL>> \o join(Unprefixed(hunks[i], {SP, "+"}), <<NL>>)
             \o <<NL, REPLACE>>], <<NL>>)
\* The first line that starts with the end marker, or the line after the last.
FirstEnd(lines, among) ==
    LET ends == {i \in among : lines[i] # <<>> /\ lines[i][1] = ENDPATCH}
    IN IF ends = {} THEN Len(lines) + 1 ELSE MinOf(ends)

\* C26: patchEnvelopeToDiffForFile builds blocks only from the hunk lines of
\* the Update File sections whose path is the edit's file_path: lines of other
\* sections, lines before the first matching section and lines after the End
\* Patch line contribute nothing; each @@-delimited hunk with at least one line
\* gives one block whose search is its context and - lines and whose replace is
\* its context and + lines, prefixes removed; and that text is what is applied.
C26_BlocksFromMatchingSections ==
    (probe.phase = "done" /\ probe.kind = "envelope") =>
        LET patch == Get(probe.changes[1], "content").s
            target == Get(probe.changes[1], "file_path").s
            lines == splitLines(patch, <<>>)
            expected == BlocksOf(HunksAmong(lines,
                            Contributing(lines, target, FirstEnd(lines, 1..Len(lines)))))
        IN /\ patchEnvelopeToDiffForFile(patch, target) = expected
           /\ probe.out.content = applySearchReplace(probe.original, expected)

-----------------------------------------------------------------------------
(* Properties of malformed delimiters and of line endings *)

\* C27: a span with malformed or unterminated SEARCH / ======= / REPLACE
\* delimiters yields no block and leaves the content unchanged for that span,
\* while the well-formed blocks elsewhere in the same text are still applied:
\* the result of a DIFF edit made of such a span and of well-formed blocks is
\* what the well-formed blocks alone make of the content.
C27_MalformedSpanSkipped ==
    (probe.phase = "done" /\ probe.kind = "malformed") =>
        probe.out.content =
            IF probe.blocks = <<>> THEN probe.original
            ELSE RefStep(probe.original, probe.blocks[1])

\* s with each CRLF written as LF, built token by token from the left.
Lf(s) ==
    LET F[i \in 0..Len(s)] ==
            IF i = 0 THEN <<>>
            ELSE IF s[i] = NL /\ i > 1 /\ s[i - 1] = CR
                 THEN Append(SubSeq(F[i - 1], 1, Len(F[i - 1]) - 1), NL)
                 ELSE Append(F[i - 1], s[i])
    IN F[Len(s)]
\* Whether position k of s (between token k and token k + 1) lies inside a CRLF.
InsideCrLf(s, k) == k >= 1 /\ k < Len(s) /\ s[k] = CR /\ s[k + 1] = NL
\* The spans of content c, as pairs of positions, that equal text t except for
\* CRLF against LF; a span does not begin or end inside a CRLF.
SpansLike(c, t) ==
    {w \in (0..Len(c)) \X (0..Len(c)) :
        /\ w[1] <= w[2]
        /\ ~InsideCrLf(c, w[1]) /\ ~InsideCrLf(c, w[2])
        /\ Lf(SubSeq(c, w[1] + 1, w[2])) = Lf(t)}

\* C28: block matching ignores the difference between CRLF and LF, and the
\* replace text goes into the result exactly as the block has it.  For a
\* single-block DIFF read as it was written: when some span of the content
\* equals the search text except for CRLF against LF, the block is found (no
\* warning), and the result is the text before the first such span, the
\* replace text token for token as written, and the text after the span, the
\* text around the span having its CRLF written as LF.
C28_MatchIgnoresLineEndings ==
    (probe.phase = "done" /\ probe.kind = "one_block") =>
        LET written == probe.blocks[1]
            read == ExecBlock(Get(probe.changes[1], "content").s, 1)
            spans == SpansLike(probe.original, written.search)
        IN (read.ok /\ read.search = written.search /\ spans # {}) =>
              /\ probe.out.warned = 0
              /\ read.replace = written.replace
              /\ \E w \in spans :
                     /\ \A v \in spans : w[1] <= v[1]
                     /\ probe.out.content =
                            Lf(SubSeq(probe.original, 1, w[1])) \o written.replace
                            \o Lf(SubSeq(probe.original, w[2] + 1, Len(probe.original)))

\* C28 witness: a search text written with LF has replaced a span of the
\* content written with CRLF, which it does not equal token for token, and the
\* CRLF of the replace text stands in the result.
C28_Witness ==
    /\ probe.phase = "done"
    /\ probe.kind = "one_block"
    /\ probe.blocks[1].search = <<"x", NL, "x">>
    /\ Occurrences(probe.original, probe.blocks[1].search) = {}
    /\ probe.original = <<"x", CR, NL, "x", CR, NL>>
    /\ probe.blocks[1].replace = <<"z", CR, NL, "z">>
    /\ probe.out.warned = 0
    /\ probe.out.content = <<"z", CR, NL, "z", NL>>

-----------------------------------------------------------------------------
(* SpecGroup: the grouping of code_changes and the fold over each file's edits *)

\* Most entries in a code_changes list drawn for the grouping.
MaxEdits == 3

\* Entries the lists are drawn from: edits of two files, and an entry of a type
\* that is none of the three.
EditChoices ==
    {Change(<<"a.ts">>, "FULL_REWRITE", <<"n">>),
     Change(<<"a.ts">>, "DIFF", DiffText(<<Block(<<"x">>, <<"z">>)>>, <<NL>>)),
     Change(<<"a.ts">>, "DIFF", DiffText(<<Block(<<"z">>, <<"y">>)>>, <<NL>>)),
     Change(<<"b.ts">>, "FULL_REWRITE", <<"m">>),
     Change(<<"b.ts">>, "DIFF", DiffText(<<Block(<<"x">>, <<"z">>)>>, <<NL>>)),
     JObj(<<JMem(<<"file_path">>, JStr(<<"c.ts">>)), JMem(<<"type">>, Str("RENAME"))>>)}

\* The files that exist, by file_path, with the text the editor gives for them.
ExistingChoices == {(<<"a.ts">> :> <<"x">>), (<<"a.ts">> :> <<"x">>) @@ (<<"b.ts">> :> <<"x", NL, "x">>)}

\* part_004:279-284: the content read for a file, '' when it does not exist.
ReadFor(existing, key) == IF key \in DOMAIN existing THEN existing[key] ELSE <<>>

\* part_004:274-295 without the calls into the editor: for each file of the Map,
\* in its order, what its changes make of the content read for it.
NewContents(groups, existing) ==
    [i \in 1..Len(groups) |->
        [key |-> groups[i].key.s,
         content |-> FoldChanges(ReadFor(existing, groups[i].key.s), groups[i].changes, 0).content]]

GroupInit ==
    /\ ProgramInit
    /\ \E cs \in SeqsUpTo(EditChoices, MaxEdits), ex \in ExistingChoices :
           probe = [phase |-> "input", kind |-> "grouped", changes |-> cs, existing |-> ex,
                    out |-> <<>>]

\* The list is grouped and every group folded.
GroupFolds ==
    /\ probe.phase = "input"
    /\ \E g \in {changesByFile(JObj(<<Changes(probe.changes)>>))} :
          probe' = [probe EXCEPT !.phase = "done", !.out = NewContents(g.groups, probe.existing)]
    /\ UNCHANGED programVars

GroupNext == GroupFolds

SpecGroup == GroupInit /\ [][GroupNext]_vars

\* The positions of the entries of known type that name path key.
EditsOf(cs, key) == {i \in 1..Len(cs) : TypeKnown(cs[i]) /\ Get(cs[i], "file_path").s = key}

\* C25: edits are grouped by file_path, the files in the order in which they
\* are first seen and each file's edits in their order in code_changes: the
\* files of the result are the paths of the entries of known type, each once,
\* a file first named earlier coming earlier; the new content of a file is the
\* fold of its edits, in that order, over the content read for it (empty when
\* the file does not exist), and is what the list gives with the entries of all
\* other files taken out.
C25_GroupedFold ==
    (probe.phase = "done" /\ probe.kind = "grouped") =>
        LET cs == probe.changes
            out == probe.out
            keys == {Get(cs[i], "file_path").s : i \in {j \in 1..Len(cs) : TypeKnown(cs[j])}}
        IN /\ {out[i].key : i \in 1..Len(out)} = keys
           /\ Len(out) = Cardinality(keys)
           /\ \A i, j \in 1..Len(out) :
                  i < j => MinOf(EditsOf(cs, out[i].key)) < MinOf(EditsOf(cs, out[j].key))
           /\ \A i \in 1..Len(out) :
                  LET own == Pick(cs, EditsOf(cs, out[i].key), 1)
                  IN /\ out[i].content =
                            FoldChanges(ReadFor(probe.existing, out[i].key), own, 0).content
                     /\ NewContents(changesByFile(JObj(<<Changes(own)>>)).groups, probe.existing)
                            = <<out[i]>>

\* C25 witness: a list in which an edit of b.ts stands between two edits of
\* a.ts has been grouped: a.ts comes first and holds what its two edits, in
\* their order, make of its content, the second changing what the first wrote.
C25_Witness ==
    /\ probe.phase = "done"
    /\ probe.kind = "grouped"
    /\ Len(probe.changes) = 3
    /\ Get(probe.changes[1], "file_path").s = <<"a.ts">>
    /\ Get(probe.changes[2], "file_path").s = <<"b.ts">>
    /\ Get(probe.changes[3], "file_path").s = <<"a.ts">>
    /\ Len(probe.out) = 2
    /\ probe.out[1] = [key |-> <<"a.ts">>, content |-> <<"y">>]
    /\ probe.out[2].key = <<"b.ts">>
    /\ probe.out[2].content # ReadFor(probe.existing, <<"b.ts">>)

-----------------------------------------------------------------------------
(* SpecRace: the extension handling responses that patch one file *)

\* part_004:175-177 (also what POST /response runs, part_004:56), for a
\* response that patches a file.
applyPatchResponse ==
    /\ currentWorkspaceRoot # ""
    /\ \E r \in PatchResponses :
           handleAIResponse(r, currentWorkspaceRoot, currentUserGoal)

RaceNext ==
    \/ StageBegins
    \/ \E picked \in {"", WsFolder} : StagePicked(picked)
    \/ \E userGoal \in Goals \cup {""} : StageGoalEntered(userGoal)
    \/ applyPatchResponse
    \/ \E k \in 1..MaxCalls : OpenTextDocumentSettles(k)
    \/ \E k \in 1..MaxCalls, success \in BOOLEAN : ApplyEditSettles(k, success)

SpecRace == Init /\ [][RaceNext]_vars

\* The file both patches edit, and what a response makes of a content when it
\* is handled alone.
Patched == JoinPath(WsFolder, <<"a.ts">>)
AloneOn(content, r) == FoldChanges(content, Grouped[r].groups[1].changes, 0).content

\* C32: two COMPLETED responses that edit the same existing file and are both
\* reported as applied leave the file's text in the editor equal to handling
\* the two one after the other in some order.  The step is the one in which
\* the second applyEdit succeeds; the first has succeeded, its text being in
\* the editor and not on disk.
C32_NoLostUpdate ==
    [][\A k \in DOMAIN call, j \in DOMAIN call :
          (/\ j # k
           /\ call[k].pc = "apply" /\ Stepped(k) /\ notices' = <<I_APPLIED>>
           /\ call[j].pc = "done" /\ call[j].action = "COMPLETED"
           /\ Patched \in DOMAIN workspace.docs
           /\ workspace.docs[Patched] # workspace.files[Patched])
          => LET disk == workspace.files[Patched]
                 a == call[j].resp
                 b == call[k].resp
             IN workspace'.docs[Patched] \in {AloneOn(AloneOn(disk, a), b),
                                              AloneOn(AloneOn(disk, b), a)}]_vars

-----------------------------------------------------------------------------
(* Properties of an invocation that outlives its task *)

\* The round directories under the staging root of the current task.
RoundsOfTask(st) == {d \in DOMAIN st : d[1] = currentStagingRoot}

\* C33: an invocation of handleAIResponse that began under one task never
\* writes into another: when it resumes from an await after stageWorkspace has
\* started a new task, it creates no round directory under the new task's
\* staging root and leaves currentRound, currentRoundDir and lastSystemPrompt
\* as they are.
C33_InvocationStaysInItsTask ==
    [][\A k \in DOMAIN call :
          (/\ call[k].pc \in {"open", "apply"}
           /\ Stepped(k)
           /\ call[k].task # currentStagingRoot)
          => /\ RoundsOfTask(staging') = RoundsOfTask(staging)
             /\ UNCHANGED <<currentRound, currentRoundDir, lastSystemPrompt>>]_vars

-----------------------------------------------------------------------------
(* Properties of GET /prompt *)

\* The prompts the code generates for round directory d: the system prompt of
\* the task's goal for its round 1, once the staging run that made the
\* directory has come to generate it; the system prompt or the review prompt
\* for a later round.
StagingInFlight(root) == stage.pc \in {"pick", "goal"} /\ stage.root = root
PromptsFor(d) ==
    LET system == {generateSystemPrompt(g, <<>>) : g \in Goals}
    IN IF d[2] = 1
       THEN IF StagingInFlight(d[1]) THEN {} ELSE system
       ELSE system \cup {ReviewPrompt}

\* C34: GET /prompt always returns a system prompt together with the files of
\* the round that prompt was generated for: whenever it answers with files,
\* while stageWorkspace stages round 1 or waits for the goal included, the
\* prompt in the answer is one generated for the directory the files are read
\* from.
C34_PromptWithItsRound ==
    PromptReply.served => PromptReply.prompt \in PromptsFor(currentRoundDir)

-----------------------------------------------------------------------------
(* Properties of the round a NEED_CONTEXT response leaves *)

\* The text names path p.
Mentions(text, p) ==
    \E i \in 1..(Len(text) - Len(p) + 1) : SubSeq(text, i, i + Len(p) - 1) = p

\* The paths a response asks for, and those of them that are files on disk.
AskedPaths(r) ==
    LET reqs == Entries(r, "request_files")
    IN {reqs[i].s : i \in {j \in 1..Len(reqs) : reqs[j].t = "str"}}
OnDisk(ws, folder, paths) == {p \in paths : JoinPath(folder, p) \in DOMAIN ws.files}

\* The new round is in place: currentRoundDir names the directory of the round
\* just opened, every requested file that exists has its copy there, and
\* GET /prompt answers with the files of that directory.
Provisioned(rec) ==
    /\ currentRound' = currentRound + 1
    /\ currentRoundDir' = RoundPath(currentStagingRoot, currentRound')
    /\ currentRoundDir' \in DOMAIN staging'
    /\ \A p \in OnDisk(workspace, rec.folder, AskedPaths(rec.resp)) :
          /\ flatName(p) \in DOMAIN staging'[currentRoundDir']
          /\ staging'[currentRoundDir'][flatName(p)] = workspace.files[JoinPath(rec.folder, p)]
    /\ PromptReply'.served
    /\ PromptReply'.files = staging'[currentRoundDir']

\* C35: when handleAIResponse returns NEED_CONTEXT, the new round is fully
\* provisioned: currentRoundDir names the new round directory, every requested
\* file that exists has been copied into it, and lastSystemPrompt lists exactly
\* the files staged in it, so that the next GET /prompt describes the new round.
C35_RoundReadyOnReturn ==
    [][(CallBegins /\ Begun.pc = "done" /\ Begun.action = "NEED_CONTEXT") =>
          /\ Provisioned(Begun)
          /\ PromptReply'.prompt = lastSystemPrompt'
          /\ \A p \in AskedPaths(Begun.resp) :
                Mentions(lastSystemPrompt', p)
                    <=> p \in OnDisk(workspace, Begun.folder, AskedPaths(Begun.resp))]_vars

-----------------------------------------------------------------------------
(* SpecRound: the copies of a NEED_CONTEXT round (part_004:363-372) made from
   one disk for one list of requested paths *)

\* Longest request_files list drawn.
MaxRequests == 2

\* Files the folder may hold besides a.ts, with their contents.
ExtraFiles ==
    (WsPath(<<<<"src">>, <<"b.ts">>>>) :> <<"slash">>)
    @@ (WsPath(<<<<"src", "__", "b.ts">>>>) :> <<"flat">>)
DiskChoices ==
    {[DiskInit EXCEPT !.files = [p \in S |-> ExtraFiles[p]] @@ @] : S \in SUBSET DOMAIN ExtraFiles}

\* Paths a response may ask for: files of the folder, a path that steps out of
\* the folder, one that steps out of a directory and back into the folder, a
\* directory, a file that does not exist.
RequestChoices ==
    {<<"a.ts">>, <<"src", "/", "b.ts">>, <<"src", "__", "b.ts">>,
     <<"..", "/", "secret.txt">>, <<"src", "/", "..", "/", "a.ts">>, <<"src">>,
     <<"missing.ts">>}

NoRound == [files |-> <<>>, staged |-> <<>>, thrown |-> FALSE]

RoundInit ==
    /\ ProgramInit
    /\ \E d \in DiskChoices, q \in SeqsUpTo(RequestChoices, MaxRequests) :
          probe = [phase |-> "input", disk |-> d, requests |-> q, out |-> NoRound]

\* part_004:363-372 over the requested paths, into the empty directory of the
\* new round.
requestedCopies(disk, requests) ==
    CopyRequested([i \in 1..Len(requests) |-> JStr(requests[i])], 1, disk, WsFolder, NoRound)

\* Every copy is made or skipped.
RoundFilled ==
    /\ probe.phase = "input"
    /\ \E c \in {requestedCopies(probe.disk, probe.requests)} :
          /\ ~c.thrown
          /\ probe' = [probe EXCEPT !.phase = "done", !.out = c]
    /\ UNCHANGED programVars

\* fs.copyFileSync throws on a directory.
RoundThrows ==
    /\ probe.phase = "input"
    /\ \E c \in {requestedCopies(probe.disk, probe.requests)} :
          /\ c.thrown
          /\ probe' = [probe EXCEPT !.phase = "done", !.out = c]
    /\ UNCHANGED programVars

RoundNext == RoundFilled \/ RoundThrows

SpecRound == RoundInit /\ [][RoundNext]_vars

\* C36: staged names identify their source: within one round, two distinct
\* requested paths are never stored under the same file name, so that the
\* round holds one file for each distinct path staged.
C36_StagedNamesDistinct ==
    (probe.phase = "done" /\ ~probe.out.thrown) =>
        /\ \A i, j \in 1..Len(probe.out.staged) :
              probe.out.staged[i] # probe.out.staged[j]
                  => flatName(probe.out.staged[i]) # flatName(probe.out.staged[j])
        /\ Cardinality(DOMAIN probe.out.files) = Cardinality(Range(probe.out.staged))

\* The segments of a requested path.
Segments(p) == Range(split(p, "/", <<>>))

\* C37: every file copied into a round directory by a NEED_CONTEXT response
\* lies under the workspace root: a requested path that holds a .. segment or
\* names a location outside the workspace is never staged.
C37_StagedUnderWorkspace ==
    probe.phase = "done" =>
        \A i \in 1..Len(probe.out.staged) :
            /\ IsPrefix(FolderPath(WsFolder), JoinPath(WsFolder, probe.out.staged[i]))
            /\ <<"..">> \notin Segments(probe.out.staged[i])

-----------------------------------------------------------------------------
(* Properties of a block with an empty search text *)

\* C38: a block with an empty search text (a DIFF block with nothing between
\* SEARCH and =======, or a PATCH hunk made of + lines only) resolves at
\* offset 0: its replace text stands in front of the whole content, line
\* endings of the content written as line feeds, with no separator and no
\* warning, whatever the content is, the empty content of an absent file
\* included.
C38_EmptySearchInsertsInFront ==
    (probe.phase = "done" /\ probe.kind = "empty_search") =>
        /\ probe.out.content = probe.blocks[1].replace \o Lf(probe.original)
        /\ probe.out.warned = 0

-----------------------------------------------------------------------------
(* SpecPost: one POST /response request, from the end of its body to its
   reply (part_004:50-66) *)

\* What JSON.parse makes of the body: it throws, or gives null, an object
\* without a text member, or an object whose text is one of the responses.
PostBodies ==
    {[kind |-> "invalid", text |-> 0], [kind |-> "null", text |-> 0],
     [kind |-> "object", text |-> 0]}
    \cup {[kind |-> "object", text |-> r] : r \in GeneralResponses}

\* The request: its body, and the replies written to res so far.
PostInit ==
    /\ GlobalsInit
    /\ workspace \in {DiskInit, [DiskInit EXCEPT !.folders = <<>>]}
    /\ \E b \in PostBodies : probe = [phase |-> "received", body |-> b, replies |-> <<>>]

\* res.writeHead(code); res.end(...)
Reply(code, action) ==
    probe' = [probe EXCEPT !.phase = "replied",
                           !.replies = Append(@, [code |-> code, action |-> action])]

\* part_004:55-56, 60-62: JSON.parse throws on the body, or data is null and
\* data.text throws; the catch block answers 400.
PostRejectsBody ==
    /\ probe.phase = "received"
    /\ probe.body.kind \in {"invalid", "null"}
    /\ Reply(400, "NONE")
    /\ UNCHANGED programVars

\* part_004:56-58, 178-181: no workspace is staged; the command shows the
\* error and returns {action: 'ERROR'}, which the reply carries.
PostNoContext ==
    /\ probe.phase = "received"
    /\ probe.body.kind = "object"
    /\ currentWorkspaceRoot = ""
    /\ notices' = <<E_NO_CONTEXT>>
    /\ Reply(200, "ERROR")
    /\ UNCHANGED <<currentStagingRoot, currentRoundDir, currentWorkspaceRoot, currentUserGoal,
                   currentRound, lastSystemPrompt, currentPanel, panels, workspace, staging,
                   stage, call>>

\* part_004:56, 176, 199, 60-62: data.text is undefined; handleAIResponse
\* throws on jsonText.length, the command rejects and the catch block answers 400.
PostTextMissing ==
    /\ probe.phase = "received"
    /\ probe.body.kind = "object"
    /\ probe.body.text = 0
    /\ currentWorkspaceRoot # ""
    /\ Reply(400, "NONE")
    /\ UNCHANGED programVars

\* part_004:56, 176: the command runs handleAIResponse on data.text, up to its
\* first await or to its return.
PostRunsHandler ==
    /\ probe.phase = "received"
    /\ probe.body.kind = "object"
    /\ probe.body.text # 0
    /\ currentWorkspaceRoot # ""
    /\ call = <<>>
    /\ handleAIResponse(probe.body.text, currentWorkspaceRoot, currentUserGoal)

\* A reply written as soon as the command has been called.
PostReplies_Early ==
    /\ probe.phase = "received"
    /\ call # <<>>
    /\ IF call[1].pc = "thrown" THEN Reply(400, "NONE") ELSE Reply(200, call[1].action)
    /\ UNCHANGED programVars

\* part_004:56-62: the promise of executeCommand settles; the result goes out
\* with 200, a rejection is caught and answered with 400.
PostReplies ==
    /\ probe.phase = "received"
    /\ call # <<>>
    /\ call[1].pc \in {"done", "thrown"}
    /\ IF call[1].pc = "done" THEN Reply(200, call[1].action) ELSE Reply(400, "NONE")
    /\ UNCHANGED programVars

PostEnd == PostRejectsBody \/ PostNoContext \/ PostTextMissing \/ PostRunsHandler

PostNext ==
    \/ StageBegins
    \/ \E picked \in {"", WsFolder} : StagePicked(picked)
    \/ \E userGoal \in Goals \cup {""} : StageGoalEntered(userGoal)
    \/ PostEnd
    \/ OpenTextDocumentSettles(1)
    \/ \E success \in BOOLEAN : ApplyEditSettles(1, success)
    \/ PostReplies

\* The end event of a received body is delivered, the editor settles the
\* promises of openTextDocument and applyEdit, and a settled promise runs its
\* continuation.
SpecPost ==
    /\ PostInit
    /\ [][PostNext]_vars
    /\ WF_vars(PostEnd)
    /\ WF_vars(OpenTextDocumentSettles(1))
    /\ WF_vars(\E success \in BOOLEAN : ApplyEditSettles(1, success))
    /\ WF_vars(PostReplies)

\* The handler of the request has finished: it has returned or thrown.
HandlerFinished == call # <<>> /\ call[1].pc \in {"done", "thrown"}
ReplySent == Len(probe'.replies) = Len(probe.replies) + 1
SentReply == probe'.replies[Len(probe'.replies)]

\* C39 as stated: every request whose body has been received gets exactly one
\* reply: 200 with the action handleAIResponse returned when the body is JSON
\* and the handler completes, 400 otherwise; never before the handler has
\* finished, never twice.
C39_ReplyAsStated ==
    /\ [](Len(probe.replies) <= 1)
    /\ [][ReplySent =>
             IF probe.body.kind # "invalid" /\ call # <<>> /\ call[1].pc = "done"
             THEN SentReply = [code |-> 200, action |-> call[1].action]
             ELSE SentReply.code = 400]_vars
    /\ <>(probe.phase = "replied")

\* C39 as amended: the 200 reply carries the action the command
\* ai-bridge.applyResponse returned, which is that of handleAIResponse, or
\* ERROR when no workspace is staged and handleAIResponse is not called.
C39_ExactlyOneReply ==
    /\ [](Len(probe.replies) <= 1)
    /\ [][ReplySent =>
             IF probe.body.kind = "object" /\ currentWorkspaceRoot = "" /\ call = <<>>
             THEN SentReply = [code |-> 200, action |-> "ERROR"]
             ELSE IF call = <<>> THEN SentReply.code = 400
             ELSE /\ HandlerFinished
                  /\ IF call[1].pc = "done"
                     THEN SentReply = [code |-> 200, action |-> call[1].action]
                     ELSE SentReply.code = 400]_vars
    /\ <>(probe.phase = "replied")

\* C39 witness: a reply has gone out with the action COMPLETED of a handler
\* that went through openTextDocument and applyEdit.
C39_Witness ==
    /\ probe.phase = "replied"
    /\ probe.replies = <<[code |-> 200, action |-> "COMPLETED"]>>
    /\ call # <<>>
    /\ call[1].pc = "done"
    /\ call[1].applied > 0
    /\ notices = <<I_APPLIED>>

=============================================================================
